---- MODULE Spec2Model ----
(***************************************************************************)
(* Model of the SLA analytics of the MeuChapa support hub                  *)
(* (src/src/pages/Analytics.tsx).                                          *)
(*                                                                         *)
(* Representation                                                          *)
(*   - A timestamptz column value (an ISO string with microseconds) is the *)
(*     triple <<day, ms, us>>: UTC day number, millisecond of that day,    *)
(*     microsecond inside that millisecond.  JavaScript null is <<>>.      *)
(*   - A JavaScript Date is the pair <<day, ms>> (millisecond precision).  *)
(*   - A 'yyyy-MM-dd' string is <<day>>; the empty string of a cleared     *)
(*     date input is <<>>.                                                 *)
(*   - A JavaScript number that may be fractional is the exact fraction    *)
(*     <<numerator, denominator>> in lowest terms (floating-point rounding *)
(*     is not modelled).                                                   *)
(*   - null in a string-typed field (priority, assigned_to) is Null.       *)
(***************************************************************************)
EXTENDS Integers, Sequences, FiniteSets, TLC

VARIABLES
  db,               \* rows of public.tickets as the query returns them
  role,             \* useAuth().role
  profileId,        \* useAuth().profile?.id (Null when there is no profile)
  dateRange,        \* useState dateRange {start, end}
  selectedAnalyst,  \* useState selectedAnalyst
  tickets,          \* useState tickets
  analystMetrics,   \* useState analystMetrics
  loading,          \* useState loading
  pending,          \* fetchTicketsWithMetrics calls awaiting the query result
  fetchedRange,     \* the dateRange captured by the call that last set tickets
  evalTicket,       \* ticket handed to the per-ticket evaluator
  evalType,         \* 'response' | 'resolution'
  evalOut,          \* what the evaluator returned
  ticketRow,        \* the row of public.tickets the ticket page shows
  ticket_messages,  \* rows of public.ticket_messages of that ticket
  now,              \* the instant the next timestamp written carries
  detailStaff,      \* the browsers whose useAuth().isStaff is true
  ticketCopy,       \* useState ticket of each browser (Null before it loads)
  ticketFetches,    \* whether a fetchTicket call is in flight, per browser
  sending,          \* handleSendMessage between its two awaits, per browser
  webhookSecret,    \* Deno.env.get("RESEND_WEBHOOK_SECRET") (Null when unset)
  dateNow,          \* Math.floor(Date.now() / 1000) of the inbound-email function
  inboundReq,       \* the request the inbound-email function handled last
  inboundRes,       \* the response it returned
  user_roles,       \* rows of public.user_roles
  adminReq,         \* the request admin-user-management handled last
  adminRes,         \* the response it returned
  authUsers,        \* the emails auth.users has an account for
  resendApiKey,     \* Deno.env.get("RESEND_API_KEY") (Null when unset)
  resendUp,         \* whether api.resend.com accepts the mail
  resetReq,         \* the request send-reset-password handled last
  resetRes,         \* the response it returned
  localStorage,     \* the item unread_messages_<profile.id>
  unreadCounts,     \* useState unreadCounts of useUnreadMessages
  unreadCountsRef,  \* unreadCountsRef.current of NotificationListener
  delivered,        \* the ticket_messages inserts the listener was sent
  session,          \* useState session and user of AuthProvider: the user id, or Null
  authLoading,      \* useState loading of AuthProvider
  authFetches       \* the timeouts, fetchProfile, fetchRole, getSession and signOut in flight

vars == <<db, role, profileId, dateRange, selectedAnalyst, tickets, analystMetrics,
          loading, pending, fetchedRange, evalTicket, evalType, evalOut,
          ticketRow, ticket_messages, now, detailStaff, ticketCopy, ticketFetches,
          sending, webhookSecret, dateNow, inboundReq, inboundRes,
          user_roles, adminReq, adminRes, authUsers, resendApiKey, resendUp,
          resetReq, resetRes, localStorage, unreadCounts, unreadCountsRef,
          delivered, session, authLoading, authFetches>>

pageVars == <<db, role, profileId, dateRange, selectedAnalyst, tickets,
              analystMetrics, loading, pending, fetchedRange>>

evalVars == <<evalTicket, evalType, evalOut>>

detailVars == <<ticketRow, ticket_messages, now, detailStaff, ticketCopy, ticketFetches,
                sending>>

inboundVars == <<webhookSecret, dateNow, inboundReq, inboundRes>>

adminVars == <<user_roles, adminReq, adminRes>>

resetVars == <<authUsers, resendApiKey, resendUp, resetReq, resetRes>>

unreadVars == <<localStorage, unreadCounts, unreadCountsRef, delivered>>

authVars == <<session, authLoading, authFetches>>

restVars == <<adminVars, resetVars, unreadVars, authVars>>

\* the state outside the analytics page and the evaluator
sysVars == <<detailVars, inboundVars, restVars>>

\* ------------------------------------------------------------------------
\* Bounds of the model
\* ------------------------------------------------------------------------
MaxTickets == 2
MaxWindowTickets == 2
MaxFoldTickets == 3
MaxClock == 3
MaxMessages == 2
MaxUnread == 2
MaxDelivered == 3
Today == 1

\* ------------------------------------------------------------------------
\* Units
\* ------------------------------------------------------------------------
MsPerMinute == 60000
MsPerDay == 86400000
LastMsOfDay == 86399999

Null == "null"
NoTime == << >>

\* ------------------------------------------------------------------------
\* Exact fractions
\* ------------------------------------------------------------------------
Abs(x) == IF x < 0 THEN -x ELSE x

RECURSIVE Gcd(_, _)
Gcd(a, b) == IF b = 0 THEN a ELSE Gcd(b, a % b)

\* n / d as a fraction in lowest terms, d > 0
Frac(n, d) ==
  LET g == Gcd(Abs(n), d)
  IN  IF n = 0 THEN <<0, 1>> ELSE <<n \div g, d \div g>>

Zero == <<0, 1>>

\* ------------------------------------------------------------------------
\* Time arithmetic
\* ------------------------------------------------------------------------
\* new Date(isoString): microseconds beyond the millisecond are dropped
ParseDate(ts) == <<ts[1], ts[2]>>

\* the instant off milliseconds after ts (builds the timestamps of the pools)
AddMs(ts, off) ==
  LET total == ts[2] + off
      dd    == IF total >= 0 THEN total \div MsPerDay
               ELSE -(((-total) + MsPerDay - 1) \div MsPerDay)
  IN  <<ts[1] + dd, total - dd * MsPerDay, ts[3]>>

\* dateLeft.getTime() - dateRight.getTime()
DifferenceInMilliseconds(dl, dr) == (dl[1] - dr[1]) * MsPerDay + (dl[2] - dr[2])

\* Math.trunc
Trunc(n, d) == IF n >= 0 THEN n \div d ELSE -((-n) \div d)

\* whole minutes rounded down
DifferenceInMinutes_Floor(dl, dr) == DifferenceInMilliseconds(dl, dr) \div MsPerMinute

\* date-fns differenceInMinutes(dateLeft, dateRight): whole minutes, truncated
DifferenceInMinutes(dl, dr) == Trunc(DifferenceInMilliseconds(dl, dr), MsPerMinute)

\* Date comparison a <= b
DateLeq(a, b) == a[1] < b[1] \/ (a[1] = b[1] /\ a[2] <= b[2])

\* comparison of two full-precision timestamps a <= b
TsLeq(a, b) ==
  \/ a[1] < b[1]
  \/ a[1] = b[1] /\ a[2] < b[2]
  \/ a[1] = b[1] /\ a[2] = b[2] /\ a[3] <= b[3]

\* ------------------------------------------------------------------------
\* SLA target table and per-ticket evaluation
\* ------------------------------------------------------------------------
\* result of reading a member that every object inherits (a function)
InheritedMember == -1

InheritedKeys == {"constructor", "toString"}

\* SLA_TARGETS[type][p]; 0 stands for undefined (no such key)
SLA_TARGETS(type, p) ==
  IF type = "response"
  THEN CASE p = "urgent" -> 30
         [] p = "high"   -> 60
         [] p = "medium" -> 240
         [] p = "low"    -> 480
         [] p \in InheritedKeys -> InheritedMember
         [] OTHER        -> 0
  ELSE CASE p = "urgent" -> 240
         [] p = "high"   -> 480
         [] p = "medium" -> 1440
         [] p = "low"    -> 2880
         [] p \in InheritedKeys -> InheritedMember
         [] OTHER        -> 0

\* a lookup without the fallback to medium
getSlaTarget_NoFallback(priority, type) ==
  LET p == IF priority = Null \/ priority = "" THEN "medium" ELSE priority
  IN  SLA_TARGETS(type, p)

getSlaTarget(priority, type) ==
  LET p == IF priority = Null \/ priority = "" THEN "medium" ELSE priority
  IN  IF SLA_TARGETS(type, p) # 0 THEN SLA_TARGETS(type, p)
      ELSE SLA_TARGETS(type, "medium")

\* number <= target; a comparison with a function is false
LeqTarget(n, target) == target # InheritedMember /\ n <= target

\* an evaluator that tests closed_at for both metric types
isWithinSla_ClosedOnly(ticket, type) ==
  IF ticket.closed_at = NoTime THEN "null"
  ELSE IF LeqTarget(DifferenceInMinutes(
                      ParseDate(IF type = "response" /\ ticket.first_response_at # NoTime
                                THEN ticket.first_response_at ELSE ticket.closed_at),
                      ParseDate(ticket.created_at)),
                    getSlaTarget(ticket.priority, type))
       THEN "true" ELSE "false"

\* "null" | TRUE | FALSE is rendered as the strings "null", "true", "false"
isWithinSla(ticket, type) ==
  LET target == getSlaTarget(ticket.priority, type)
  IN  IF type = "response"
      THEN IF ticket.first_response_at = NoTime THEN "null"
           ELSE IF LeqTarget(DifferenceInMinutes(ParseDate(ticket.first_response_at),
                                                 ParseDate(ticket.created_at)), target)
                THEN "true" ELSE "false"
      ELSE IF ticket.closed_at = NoTime THEN "null"
           ELSE IF LeqTarget(DifferenceInMinutes(ParseDate(ticket.closed_at),
                                                 ParseDate(ticket.created_at)), target)
                THEN "true" ELSE "false"

\* ------------------------------------------------------------------------
\* Tickets
\* ------------------------------------------------------------------------
Analysts == {"a1", "a2"}

\* enum public.ticket_priority
TicketPriorities == {"low", "medium", "high", "critical"}

MetricTypes == {"response", "resolution"}

Ticket(i, p, c, f, cl, a) ==
  [id |-> i, priority |-> p, created_at |-> c, first_response_at |-> f,
   closed_at |-> cl, assigned_to |-> a]

\* ------------------------------------------------------------------------
\* The evaluator on its own: one ticket, one metric type
\* ------------------------------------------------------------------------
EvalPriorities == TicketPriorities \cup {Null, "", "urgent", "bogus", "constructor"}

EvalCreated == <<0, 0, 0>>

\* first responses 30 s before creation, 45 minutes after it, and at, just
\* inside the minute of, and one minute past every response target
ResponseOffsets ==
  {-30000, 45 * MsPerMinute}
  \cup UNION {{t * MsPerMinute, t * MsPerMinute + 59999, (t + 1) * MsPerMinute} :
              t \in {30, 60, 240, 480}}

\* closures at, just inside the minute of, and one minute past every
\* resolution target (valid_dates: closed_at >= created_at)
ResolutionOffsets ==
  UNION {{t * MsPerMinute, t * MsPerMinute + 59999, (t + 1) * MsPerMinute} :
         t \in {240, 480, 1440, 2880}}

EvalTickets ==
  {Ticket(1, p, EvalCreated, f, cl, "a1") :
     p \in EvalPriorities,
     f \in {NoTime} \cup {AddMs(EvalCreated, o) : o \in ResponseOffsets},
     cl \in {NoTime} \cup {AddMs(EvalCreated, o) : o \in ResolutionOffsets}}

NotEvaluated == [done |-> FALSE, target |-> 0, within |-> "null"]

\* no browser has the ticket page open
DetailIdle ==
  /\ ticketRow = [status_id |-> Null, first_response_at |-> NoTime, closed_at |-> NoTime]
  /\ ticket_messages = << >>
  /\ now = 0
  /\ detailStaff = {}
  /\ ticketCopy = << >>
  /\ ticketFetches = << >>
  /\ sending = << >>

\* the inbound-email function has handled no request
NoRequest == [method |-> Null]
NoResponse == [status |-> 0, body |-> Null]

InboundIdle ==
  /\ webhookSecret = Null
  /\ dateNow = 0
  /\ inboundReq = NoRequest
  /\ inboundRes = NoResponse

\* admin-user-management has handled no request
AdminIdle ==
  /\ user_roles = {}
  /\ adminReq = NoRequest
  /\ adminRes = NoResponse

\* send-reset-password has handled no request
ResetIdle ==
  /\ authUsers = {}
  /\ resendApiKey = Null
  /\ resendUp = FALSE
  /\ resetReq = NoRequest
  /\ resetRes = NoResponse

\* localStorage.getItem(key) === null
NoItem == [present |-> FALSE, counts |-> << >>]

\* nothing stored and no listener mounted
UnreadIdle ==
  /\ localStorage = NoItem
  /\ unreadCounts = << >>
  /\ unreadCountsRef = << >>
  /\ delivered = << >>

\* no session and nothing in flight
AuthIdle ==
  /\ session = Null
  /\ authLoading = TRUE
  /\ authFetches = {}

RestIdle == AdminIdle /\ ResetIdle /\ UnreadIdle /\ AuthIdle

SysIdle == DetailIdle /\ InboundIdle /\ RestIdle

PageIdle ==
  /\ db = << >>
  /\ role = "user"
  /\ profileId = Null
  /\ dateRange = [start |-> << >>, end |-> << >>]
  /\ selectedAnalyst = "all"
  /\ tickets = << >>
  /\ analystMetrics = << >>
  /\ loading = TRUE
  /\ pending = {}
  /\ fetchedRange = [start |-> << >>, end |-> << >>]

InitSla ==
  /\ PageIdle
  /\ SysIdle
  /\ evalTicket \in EvalTickets
  /\ evalType \in MetricTypes
  /\ evalOut = NotEvaluated

\* a call isWithinSla(evalTicket, evalType)
Evaluate ==
  /\ ~evalOut.done
  /\ evalOut' = [done   |-> TRUE,
                 target |-> getSlaTarget(evalTicket.priority, evalType),
                 within |-> isWithinSla(evalTicket, evalType)]
  /\ UNCHANGED <<evalTicket, evalType>>
  /\ UNCHANGED <<pageVars, sysVars>>

NextSla == Evaluate

SpecSla == InitSla /\ [][NextSla]_vars

\* ------------------------------------------------------------------------
\* Analyst metrics (calculateAnalystMetrics)
\* ------------------------------------------------------------------------
\* a response time that is never below 0
ResponseMinutes_NotNegative(t) ==
  IF DifferenceInMinutes(ParseDate(t.first_response_at), ParseDate(t.created_at)) < 0
  THEN 0
  ELSE DifferenceInMinutes(ParseDate(t.first_response_at), ParseDate(t.created_at))

ResponseMinutes(t) ==
  DifferenceInMinutes(ParseDate(t.first_response_at), ParseDate(t.created_at))

ResolutionMinutes(t) ==
  DifferenceInMinutes(ParseDate(t.closed_at), ParseDate(t.created_at))

\* (part / whole) * 100, or 0 when whole is 0
Percentage(part, whole) == IF whole > 0 THEN Frac(part * 100, whole) ELSE Zero

\* a mean that weighs the previous value by n instead of n - 1
RunningMean_PreviousByN(avg, n, sample) == Frac(avg[1] * n + sample * avg[2], avg[2] * n)

\* (avg * (n - 1) + sample) / n
RunningMean(avg, n, sample) == Frac(avg[1] * (n - 1) + sample * avg[2], avg[2] * n)

\* an entry that starts from the one the previous run left in analystMetrics
NewAnalyst_KeepPrevious(id) ==
  IF \E i \in 1..Len(analystMetrics) : analystMetrics[i].analyst_id = id
  THEN analystMetrics[CHOOSE i \in 1..Len(analystMetrics) :
                        analystMetrics[i].analyst_id = id]
  ELSE [analyst_id |-> id, total_tickets |-> 0, avg_response_time |-> Zero,
        avg_resolution_time |-> Zero, resolved_tickets |-> 0,
        sla_response_compliance |-> Zero, sla_resolution_compliance |-> Zero]

NewAnalyst(id) ==
  [analyst_id |-> id, total_tickets |-> 0, avg_response_time |-> Zero,
   avg_resolution_time |-> Zero, resolved_tickets |-> 0,
   sla_response_compliance |-> Zero, sla_resolution_compliance |-> Zero]

\* position of the analyst's entry in the insertion-ordered map, 0 if absent
MapIndex(map, id) ==
  IF \E i \in 1..Len(map) : map[i].analyst_id = id
  THEN CHOOSE i \in 1..Len(map) : map[i].analyst_id = id
  ELSE 0

\* a fold that counts a ticket without first response as a sample of 0
FoldTicket_ZeroSamples(existing, ticket) ==
  LET e1 == [existing EXCEPT !.total_tickets = @ + 1]
      e2 == [e1 EXCEPT !.avg_response_time =
               RunningMean(@, e1.total_tickets,
                           IF ticket.first_response_at # NoTime
                           THEN ResponseMinutes(ticket) ELSE 0)]
      e3 == IF ticket.closed_at # NoTime
            THEN [e2 EXCEPT !.resolved_tickets = @ + 1,
                            !.avg_resolution_time =
                    RunningMean(@, e2.resolved_tickets + 1, ResolutionMinutes(ticket))]
            ELSE e2
  IN  e3

\* a fold whose resolution mean is weighted by total_tickets
FoldTicket_ResolutionOverTotal(existing, ticket) ==
  LET e1 == [existing EXCEPT !.total_tickets = @ + 1]
      e2 == IF ticket.first_response_at # NoTime
            THEN [e1 EXCEPT !.avg_response_time =
                    RunningMean(@, e1.total_tickets, ResponseMinutes(ticket))]
            ELSE e1
      e3 == IF ticket.closed_at # NoTime
            THEN [e2 EXCEPT !.resolved_tickets = @ + 1,
                            !.avg_resolution_time =
                    RunningMean(@, e2.total_tickets, ResolutionMinutes(ticket))]
            ELSE e2
  IN  e3

\* a fold that counts a ticket as resolved when it has a first response
FoldTicket_ResolvedOnResponse(existing, ticket) ==
  LET e1 == [existing EXCEPT !.total_tickets = @ + 1]
      e2 == IF ticket.first_response_at # NoTime
            THEN [e1 EXCEPT !.resolved_tickets = @ + 1,
                            !.avg_response_time =
                    RunningMean(@, e1.total_tickets, ResponseMinutes(ticket))]
            ELSE e1
  IN  e2

\* the body of the forEach for one assigned ticket
FoldTicket(existing, ticket) ==
  LET e1 == [existing EXCEPT !.total_tickets = @ + 1]
      e2 == IF ticket.first_response_at # NoTime
            THEN [e1 EXCEPT !.avg_response_time =
                    RunningMean(@, e1.total_tickets, ResponseMinutes(ticket))]
            ELSE e1
      e3 == IF ticket.closed_at # NoTime
            THEN [e2 EXCEPT !.resolved_tickets = @ + 1,
                            !.avg_resolution_time =
                    RunningMean(@, e2.resolved_tickets + 1, ResolutionMinutes(ticket))]
            ELSE e2
  IN  e3

\* a map whose entry is not read back: every ticket starts a fresh entry
RECURSIVE MetricsMap_NoGet(_, _)
MetricsMap_NoGet(ticketsData, k) ==
  IF k = 0 THEN << >>
  ELSE LET map    == MetricsMap_NoGet(ticketsData, k - 1)
           ticket == ticketsData[k]
           i      == MapIndex(map, ticket.assigned_to)
       IN  IF ticket.assigned_to = Null THEN map
           ELSE IF i = 0
                THEN Append(map, FoldTicket(NewAnalyst(ticket.assigned_to), ticket))
                ELSE [map EXCEPT ![i] = FoldTicket(NewAnalyst(ticket.assigned_to), ticket)]

\* metricsMap after the first k tickets of ticketsData
RECURSIVE MetricsMap(_, _)
MetricsMap(ticketsData, k) ==
  IF k = 0 THEN << >>
  ELSE LET map    == MetricsMap(ticketsData, k - 1)
           ticket == ticketsData[k]
           i      == MapIndex(map, ticket.assigned_to)
       IN  IF ticket.assigned_to = Null THEN map
           ELSE IF i = 0
                THEN Append(map, FoldTicket(NewAnalyst(ticket.assigned_to), ticket))
                ELSE [map EXCEPT ![i] = FoldTicket(@, ticket)]

\* compliance taken over every ticket of the analyst
WithCompliance_OverTotal(analyst, ticketsData) ==
  LET analystTickets == SelectSeq(ticketsData,
                                  LAMBDA t : t.assigned_to = analyst.analyst_id)
  IN  [analyst EXCEPT
         !.sla_response_compliance =
            Percentage(Len(SelectSeq(analystTickets,
                                     LAMBDA t : isWithinSla(t, "response") = "true")),
                       Len(analystTickets)),
         !.sla_resolution_compliance =
            Percentage(Len(SelectSeq(analystTickets,
                                     LAMBDA t : isWithinSla(t, "resolution") = "true")),
                       Len(analystTickets))]

\* the compliance percentages of one entry of the map
WithCompliance(analyst, ticketsData) ==
  LET analystTickets == SelectSeq(ticketsData,
                                  LAMBDA t : t.assigned_to = analyst.analyst_id)
      ticketsWithResponse == SelectSeq(analystTickets,
                                       LAMBDA t : t.first_response_at # NoTime)
      ticketsWithinResponseSla == SelectSeq(ticketsWithResponse,
                                            LAMBDA t : isWithinSla(t, "response") = "true")
      ticketsResolved == SelectSeq(analystTickets, LAMBDA t : t.closed_at # NoTime)
      ticketsWithinResolutionSla == SelectSeq(ticketsResolved,
                                              LAMBDA t : isWithinSla(t, "resolution") = "true")
  IN  [analyst EXCEPT
         !.sla_response_compliance =
            Percentage(Len(ticketsWithinResponseSla), Len(ticketsWithResponse)),
         !.sla_resolution_compliance =
            Percentage(Len(ticketsWithinResolutionSla), Len(ticketsResolved))]

\* the entries of the map handed over last first
calculateAnalystMetrics_Reversed(ticketsData) ==
  LET map == MetricsMap(ticketsData, Len(ticketsData))
  IN  [i \in 1..Len(map) |-> WithCompliance(map[Len(map) + 1 - i], ticketsData)]

\* the list handed to setAnalystMetrics
calculateAnalystMetrics(ticketsData) ==
  LET map == MetricsMap(ticketsData, Len(ticketsData))
  IN  [i \in 1..Len(map) |-> WithCompliance(map[i], ticketsData)]

\* ------------------------------------------------------------------------
\* Values computed on every render
\* ------------------------------------------------------------------------
\* a filter that applies the selected analyst for every role
assignedTickets_AnyRole(tk, r, sel, pid) ==
  SelectSeq(tk, LAMBDA t :
    /\ t.assigned_to # Null
    /\ (IF sel # "all" THEN t.assigned_to = sel ELSE TRUE))

\* a filter that lets an admin with 'all' count the unassigned tickets too
assignedTickets_WithUnassigned(tk, r, sel, pid) ==
  SelectSeq(tk, LAMBDA t :
    IF r = "admin"
    THEN (IF sel # "all" THEN t.assigned_to = sel ELSE TRUE)
    ELSE t.assigned_to # Null /\ t.assigned_to = pid)

assignedTickets(tk, r, sel, pid) ==
  SelectSeq(tk, LAMBDA t :
    /\ t.assigned_to # Null
    /\ IF r = "admin"
       THEN (IF sel # "all" THEN t.assigned_to = sel ELSE TRUE)
       ELSE t.assigned_to = pid)

\* percentages taken over every ticket, answered or not
slaStats_OverAll(at) ==
  [responseCompliance |->
     Percentage(Len(SelectSeq(at, LAMBDA t : isWithinSla(t, "response") = "true")), Len(at)),
   resolutionCompliance |->
     Percentage(Len(SelectSeq(at, LAMBDA t : isWithinSla(t, "resolution") = "true")), Len(at))]

slaStats(at) ==
  LET ticketsWithResponse == SelectSeq(at, LAMBDA t : t.first_response_at # NoTime)
      ticketsWithinResponseSla == SelectSeq(ticketsWithResponse,
                                            LAMBDA t : isWithinSla(t, "response") = "true")
      ticketsResolved == SelectSeq(at, LAMBDA t : t.closed_at # NoTime)
      ticketsWithinResolutionSla == SelectSeq(ticketsResolved,
                                              LAMBDA t : isWithinSla(t, "resolution") = "true")
  IN  [responseCompliance |->
         Percentage(Len(ticketsWithinResponseSla), Len(ticketsWithResponse)),
       resolutionCompliance |->
         Percentage(Len(ticketsWithinResolutionSla), Len(ticketsResolved))]

\* at.reduce(...) over the first k tickets: sum of the response minutes
RECURSIVE SumResponse(_, _)
SumResponse(at, k) ==
  IF k = 0 THEN 0
  ELSE SumResponse(at, k - 1)
       + (IF at[k].first_response_at # NoTime THEN ResponseMinutes(at[k]) ELSE 0)

RECURSIVE SumResolution(_, _)
SumResolution(at, k) ==
  IF k = 0 THEN 0
  ELSE SumResolution(at, k - 1)
       + (IF at[k].closed_at # NoTime THEN ResolutionMinutes(at[k]) ELSE 0)

\* n || 1
OrOne(n) == IF n = 0 THEN 1 ELSE n

\* averages taken over every ticket
overallStats_OverTotal(at) ==
  [totalTickets      |-> Len(at),
   respondedTickets  |-> Len(SelectSeq(at, LAMBDA t : t.first_response_at # NoTime)),
   resolvedTickets   |-> Len(SelectSeq(at, LAMBDA t : t.closed_at # NoTime)),
   avgResponseTime   |-> Frac(SumResponse(at, Len(at)), OrOne(Len(at))),
   avgResolutionTime |-> Frac(SumResolution(at, Len(at)), OrOne(Len(at)))]

overallStats(at) ==
  [totalTickets      |-> Len(at),
   respondedTickets  |-> Len(SelectSeq(at, LAMBDA t : t.first_response_at # NoTime)),
   resolvedTickets   |-> Len(SelectSeq(at, LAMBDA t : t.closed_at # NoTime)),
   avgResponseTime   |-> Frac(SumResponse(at, Len(at)),
                              OrOne(Len(SelectSeq(at, LAMBDA t : t.first_response_at # NoTime)))),
   avgResolutionTime |-> Frac(SumResolution(at, Len(at)),
                              OrOne(Len(SelectSeq(at, LAMBDA t : t.closed_at # NoTime))))]

\* the values of the current render
Assigned == assignedTickets(tickets, role, selectedAnalyst, profileId)
Overall == overallStats(Assigned)
Sla == slaStats(Assigned)

\* ------------------------------------------------------------------------
\* The analytics page
\* ------------------------------------------------------------------------
isStaff == role = "admin" \/ role = "analyst"

Range(s, e) == [start |-> s, end |-> e]

\* format(subDays(new Date(), 90), 'yyyy-MM-dd') .. format(new Date(), 'yyyy-MM-dd')
DefaultRange == Range(<<Today - 90>>, <<Today>>)

\* a filter whose end bound is exclusive
InRange_EndExclusive(t, r) ==
  /\ r.start # << >>
  /\ r.end # << >>
  /\ DateLeq(<<r.start[1], 0>>, ParseDate(t.created_at))
  /\ ~DateLeq(<<r.end[1], LastMsOfDay>>, ParseDate(t.created_at))

\* createdDate >= startDate && createdDate <= endDate, with startDate at
\* 00:00:00.000 UTC and endDate at 23:59:59.999 UTC; a comparison with the
\* Invalid Date of an empty input is false
InRange(t, r) ==
  /\ r.start # << >>
  /\ r.end # << >>
  /\ DateLeq(<<r.start[1], 0>>, ParseDate(t.created_at))
  /\ DateLeq(ParseDate(t.created_at), <<r.end[1], LastMsOfDay>>)

\* the useEffect that follows a render with a new fetchTicketsWithMetrics:
\* the call runs up to its await
StartFetch(r) ==
  IF isStaff
  THEN loading' = TRUE /\ pending' = pending \cup {r}
  ELSE UNCHANGED <<loading, pending>>

\* the query answers a call made with date range r
FetchComplete ==
  \E r \in pending :
    LET filteredTickets == SelectSeq(db, LAMBDA t : InRange(t, r))
    IN  /\ tickets' = filteredTickets
        /\ analystMetrics' =
             calculateAnalystMetrics(
               SelectSeq(filteredTickets, LAMBDA t : t.assigned_to # Null))
        /\ fetchedRange' = r
        /\ loading' = FALSE
        /\ pending' = pending \ {r}
        /\ UNCHANGED <<db, role, profileId, dateRange, selectedAnalyst>>
        /\ UNCHANGED <<evalVars, sysVars>>

\* the query fails
FetchError ==
  \E r \in pending :
    /\ loading' = FALSE
    /\ pending' = pending \ {r}
    /\ UNCHANGED <<db, role, profileId, dateRange, selectedAnalyst, tickets,
                   analystMetrics, fetchedRange>>
    /\ UNCHANGED <<evalVars, sysVars>>

\* the days a date input is set to; << >> is the cleared input
InputDays == {0, 1}
DateInputs == {<<d>> : d \in InputDays} \cup {<< >>}

\* a page body that stays rendered while a fetch is in flight
Rendered_WhileLoading == isStaff

\* the page body (date inputs, quick filters, analyst select) is rendered
Rendered == isStaff /\ ~loading

handleDateChange ==
  \E type \in {"start", "end"}, value \in DateInputs :
    /\ Rendered
    /\ value # dateRange[type]
    /\ dateRange' = [dateRange EXCEPT ![type] = value]
    /\ StartFetch(dateRange')
    /\ UNCHANGED <<db, role, profileId, selectedAnalyst, tickets, analystMetrics,
                   fetchedRange>>
    /\ UNCHANGED <<evalVars, sysVars>>

QuickFilterDays == {7, 30, 90}

handleQuickFilter ==
  \E days \in QuickFilterDays :
    /\ Rendered
    /\ dateRange' = Range(<<Today - days>>, <<Today>>)
    /\ StartFetch(dateRange')
    /\ UNCHANGED <<db, role, profileId, selectedAnalyst, tickets, analystMetrics,
                   fetchedRange>>
    /\ UNCHANGED <<evalVars, sysVars>>

\* the items of the analyst select: 'all' and the analysts of the tickets
SelectItems ==
  {"all"} \cup ({tickets[i].assigned_to : i \in 1..Len(tickets)} \ {Null})

\* a selection that also narrows the per-analyst list to the selected analyst
setSelectedAnalyst_Narrowing ==
  \E value \in SelectItems :
    /\ Rendered
    /\ role = "admin"
    /\ value # selectedAnalyst
    /\ selectedAnalyst' = value
    /\ analystMetrics' =
         calculateAnalystMetrics(assignedTickets(tickets, role, value, profileId))
    /\ UNCHANGED <<db, role, profileId, dateRange, tickets, loading,
                   pending, fetchedRange>>
    /\ UNCHANGED <<evalVars, sysVars>>

setSelectedAnalyst ==
  \E value \in SelectItems :
    /\ Rendered
    /\ role = "admin"
    /\ value # selectedAnalyst
    /\ selectedAnalyst' = value
    /\ UNCHANGED <<db, role, profileId, dateRange, tickets, analystMetrics, loading,
                   pending, fetchedRange>>
    /\ UNCHANGED <<evalVars, sysVars>>

EvalIdle ==
  /\ evalTicket = Ticket(0, Null, EvalCreated, NoTime, NoTime, Null)
  /\ evalType = "response"
  /\ evalOut = NotEvaluated

\* the page as mounted for a signed-in caller over the given rows
InitPage(rows, profiles) ==
  /\ db = rows
  /\ role \in {"user", "analyst", "admin"}
  /\ profileId \in profiles
  /\ dateRange = DefaultRange
  /\ selectedAnalyst = "all"
  /\ tickets = << >>
  /\ analystMetrics = << >>
  /\ loading = TRUE
  /\ pending = IF isStaff THEN {DefaultRange} ELSE {}
  /\ fetchedRange = Range(<< >>, << >>)
  /\ EvalIdle
  /\ SysIdle

\* ------------------------------------------------------------------------
\* Rows of public.tickets the page is run over
\* ------------------------------------------------------------------------
\* the query orders by created_at descending
SortedDesc(rows) ==
  \A i \in 1..(Len(rows) - 1) : TsLeq(rows[i + 1].created_at, rows[i].created_at)

\* creation instants around the bounds of the days a date input offers: the
\* first millisecond of day 1, the last millisecond of day 0, and half a
\* millisecond later
WindowCreated == {<<1, 0, 0>>, <<0, LastMsOfDay, 0>>, <<0, LastMsOfDay, 500>>}

\* n assigned tickets, each answered after 45 minutes, created at c[i] and
\* assigned to a[i]
WindowRows(n, c, a) ==
  [i \in 1..n |-> Ticket(i, "high", c[i], AddMs(c[i], 45 * MsPerMinute), NoTime, a[i])]

\* row i is created i hours before noon of day 1
StatsCreated(i) == AddMs(<<1, 43200000, 250>>, -(i * 60 * MsPerMinute))

\* a first response after 45 minutes or after 90 minutes 30 seconds, a
\* closure after 300 or after 500 minutes, or none; priority high in every
\* combination for an assigned ticket; an unassigned ticket open and
\* unanswered, or answered and closed within both targets or past both;
\* priority critical answered after 45 and closed after 300 minutes.
\* first_response_at is written from the clock of the browser: an open
\* ticket of an analyst may carry a first response 30 or 90 seconds before
\* created_at (valid_dates keeps closed_at >= created_at)
EarlyResponses == {<<-30000>>, <<-90000>>}

StatsChoices ==
  {ch \in [p : {"high", "critical"},
           f : {<< >>, <<45 * MsPerMinute>>, <<90 * MsPerMinute + 30000>>}
                 \cup EarlyResponses,
           cl : {<< >>, <<300 * MsPerMinute>>, <<500 * MsPerMinute>>},
           a : Analysts \cup {Null}] :
     \/ ch.p = "high" /\ ch.f \notin EarlyResponses /\ ch.a # Null
     \/ ch.p = "high" /\ ch.a = Null
          /\ <<ch.f, ch.cl>> \in {<<<< >>, << >>>>,
                                  <<<<45 * MsPerMinute>>, <<300 * MsPerMinute>>>>,
                                  <<<<90 * MsPerMinute + 30000>>, <<500 * MsPerMinute>>>>}
     \/ ch.p = "critical" /\ ch.f = <<45 * MsPerMinute>> /\ ch.cl = <<300 * MsPerMinute>>
     \/ ch.p = "high" /\ ch.f \in EarlyResponses /\ ch.cl = << >> /\ ch.a # Null}

StatsTicket(i, ch) ==
  Ticket(i, ch.p, StatsCreated(i),
         IF ch.f = << >> THEN NoTime ELSE AddMs(StatsCreated(i), ch.f[1]),
         IF ch.cl = << >> THEN NoTime ELSE AddMs(StatsCreated(i), ch.cl[1]),
         ch.a)

StatsRows(n, ch) == [i \in 1..n |-> StatsTicket(i, ch[i])]

\* ------------------------------------------------------------------------
\* Specifications of the page
\* ------------------------------------------------------------------------
\* up to MaxWindowTickets rows in the order of the query
Init ==
  \E n \in 0..MaxWindowTickets :
    \E c \in [1..n -> WindowCreated], a \in [1..n -> Analysts] :
      /\ SortedDesc(WindowRows(n, c, a))
      /\ InitPage(WindowRows(n, c, a), {"a1"})

Next ==
  \/ FetchComplete
  \/ FetchError
  \/ handleDateChange
  \/ handleQuickFilter
  \/ setSelectedAnalyst

Spec == Init /\ [][Next]_vars

\* the page with the date range it is mounted with
InitStats ==
  \E n \in 0..MaxTickets :
    \E ch \in [1..n -> StatsChoices] :
      InitPage(StatsRows(n, ch), {"a1", Null})

NextStats ==
  \/ FetchComplete
  \/ FetchError
  \/ setSelectedAnalyst

SpecStats == InitStats /\ [][NextStats]_vars

\* the tickets of one analyst, open, each without a first response or
\* answered after 45 minutes or after 90 minutes 30 seconds
FoldResponses == {<< >>, <<45 * MsPerMinute>>, <<90 * MsPerMinute + 30000>>}

FoldRows(n, f) ==
  [i \in 1..n |->
     Ticket(i, "high", StatsCreated(i),
            IF f[i] = << >> THEN NoTime ELSE AddMs(StatsCreated(i), f[i][1]),
            NoTime, "a1")]

InitFold ==
  \E n \in 0..MaxFoldTickets :
    \E f \in [1..n -> FoldResponses] :
      InitPage(FoldRows(n, f), {"a1"})

SpecFold == InitFold /\ [][NextStats]_vars

\* ------------------------------------------------------------------------
\* Claims about the target table and the evaluator (SpecSla)
\* ------------------------------------------------------------------------
\* minutes from created_at to the milestone of the metric type
EvalElapsed ==
  DifferenceInMinutes(
    ParseDate(IF evalType = "response" THEN evalTicket.first_response_at
              ELSE evalTicket.closed_at),
    ParseDate(evalTicket.created_at))

EvalMilestone ==
  IF evalType = "response" THEN evalTicket.first_response_at ELSE evalTicket.closed_at

\* the table of the specification for the four priorities of a ticket
TableMinutes ==
  [response   |-> [low |-> 480, medium |-> 240, high |-> 60, critical |-> 30],
   resolution |-> [low |-> 2880, medium |-> 1440, high |-> 480, critical |-> 240]]

\* C1: for each of the four priorities of a ticket getSlaTarget returns the
\* value of the specification's table (response 480/240/60/30, resolution
\* 2880/1440/480/240 for low/medium/high/critical).
C1_TargetsFollowTable ==
  (evalOut.done /\ evalTicket.priority \in TicketPriorities)
    => evalOut.target = TableMinutes[evalType][evalTicket.priority]

\* C2: once the milestone is set, isWithinSla is true exactly when the
\* elapsed minutes are at most the target of the ticket's priority and
\* metric type; a high ticket answered after 45 minutes is compliant, a
\* critical ticket answered after 60 minutes is not.
C2_WithinIffElapsedLeqTarget ==
  (evalOut.done /\ EvalMilestone # NoTime /\ evalTicket.priority \in TicketPriorities)
    => ((evalOut.within = "true")
          <=> (EvalElapsed <= TableMinutes[evalType][evalTicket.priority]))

\* C3 as stated: every priority outside low, medium, high, critical (null,
\* the empty string and 'urgent' included) gets the medium target.
C3_FallbackOutsideEnum ==
  (evalOut.done /\ evalTicket.priority \notin TicketPriorities)
    => evalOut.target = (IF evalType = "response" THEN 240 ELSE 1440)

\* C3 as amended: every priority that is no key of the table object, own
\* (low, medium, high, urgent) or inherited, and is not critical gets the
\* medium target; 'urgent' gets its own entry, 30 and 240 minutes.
C3_FallbackOutsideTableKeys ==
  /\ (evalOut.done
        /\ evalTicket.priority \notin (TicketPriorities \cup {"urgent"} \cup InheritedKeys))
       => evalOut.target = (IF evalType = "response" THEN 240 ELSE 1440)
  /\ (evalOut.done /\ evalTicket.priority = "urgent")
       => evalOut.target = (IF evalType = "response" THEN 30 ELSE 240)

\* an unrecognised, a null and an empty priority have each been looked up
C3_Witness ==
  /\ evalOut.done
  /\ evalTicket.priority \in {Null, "", "bogus"}
  /\ evalType = "resolution"
  /\ evalOut.target = 1440

\* C4: isWithinSla returns null exactly when the milestone of the metric
\* type is null (first_response_at for response, closed_at for resolution).
C4_NullIffNoMilestone ==
  evalOut.done => ((evalOut.within = "null") <=> (EvalMilestone = NoTime))

\* a closed ticket without a first response evaluated for response
C4_Witness ==
  /\ evalOut.done
  /\ evalType = "response"
  /\ evalTicket.first_response_at = NoTime
  /\ evalTicket.closed_at # NoTime
  /\ evalOut.within = "null"

\* ------------------------------------------------------------------------
\* Claims about the page (SpecStats, Spec)
\* ------------------------------------------------------------------------
\* positions of the role-filtered assigned tickets
AssignedIdx == 1..Len(Assigned)

Responded(at) == {i \in 1..Len(at) : at[i].first_response_at # NoTime}
Resolved(at) == {i \in 1..Len(at) : at[i].closed_at # NoTime}

CompliantIdx(at, type) == {i \in 1..Len(at) : isWithinSla(at[i], type) = "true"}

\* value = 100 * part / whole, or 0 when whole is 0
IsPercentage(value, part, whole) ==
  IF whole = 0 THEN value = Zero
  ELSE value[1] * whole = 100 * part * value[2]

\* C5: responseCompliance is 100 times the tickets evaluated compliant for
\* response over the tickets with a first response, 0 when there is none;
\* resolutionCompliance likewise over the closed tickets; a ticket evaluated
\* unknown counts in neither.
C5_ComplianceOverMeasurable ==
  /\ IsPercentage(Sla.responseCompliance,
                  Cardinality(CompliantIdx(Assigned, "response")),
                  Cardinality(Responded(Assigned)))
  /\ IsPercentage(Sla.resolutionCompliance,
                  Cardinality(CompliantIdx(Assigned, "resolution")),
                  Cardinality(Resolved(Assigned)))

\* two tickets are counted, one of them without a first response, and the
\* other one alone makes the response compliance 100
C5_Witness ==
  /\ ~loading
  /\ Len(Assigned) = 2
  /\ Cardinality(Responded(Assigned)) = 1
  /\ Sla.responseCompliance = <<100, 1>>
  /\ Cardinality(Resolved(Assigned)) = 2
  /\ Sla.resolutionCompliance = <<50, 1>>

\* ids of the rows a sequence holds
Ids(seq) == {seq[i].id : i \in 1..Len(seq)}

\* a fetch made with both dates set has delivered its result
Fetched == fetchedRange.start # << >> /\ fetchedRange.end # << >>

WindowStart == <<fetchedRange.start[1], 0, 0>>
WindowEnd == <<fetchedRange.end[1], LastMsOfDay, 0>>

\* created_at itself lies in the window
InWindowExact(t) == TsLeq(WindowStart, t.created_at) /\ TsLeq(t.created_at, WindowEnd)

\* created_at cut to whole milliseconds lies in the window
InWindowMs(t) ==
  /\ DateLeq(ParseDate(WindowStart), ParseDate(t.created_at))
  /\ DateLeq(ParseDate(t.created_at), ParseDate(WindowEnd))

\* the statistics of the page count no row outside inside, a set of
\* positions of db
OnlyWindowCounted(inside) ==
  /\ Ids(Assigned) \subseteq {db[i].id : i \in inside}
  /\ \A k \in 1..Len(analystMetrics) :
       analystMetrics[k].total_tickets =
         Cardinality({i \in inside :
                        db[i].assigned_to = analystMetrics[k].analyst_id})

\* C6 as stated: a ticket is kept exactly when its created_at lies between
\* 00:00:00.000 UTC of the start day and 23:59:59.999 UTC of the end day,
\* bounds included, and no ticket outside that window is counted.
C6_KeptIffInWindow ==
  Fetched =>
    /\ \A i \in 1..Len(db) : (db[i].id \in Ids(tickets)) <=> InWindowExact(db[i])
    /\ OnlyWindowCounted({i \in 1..Len(db) : InWindowExact(db[i])})

\* C6 as amended: a ticket is kept exactly when its created_at, cut to whole
\* milliseconds as the Date parse does, lies between 00:00:00.000 UTC of the
\* start day and 23:59:59.999 UTC of the end day, bounds included; no other
\* ticket is counted in the overall statistics or in a per-analyst entry.
C6_KeptIffInWindowMs ==
  Fetched =>
    /\ \A i \in 1..Len(db) : (db[i].id \in Ids(tickets)) <=> InWindowMs(db[i])
    /\ OnlyWindowCounted({i \in 1..Len(db) : InWindowMs(db[i])})

\* a fetch for day 0 alone kept a ticket created in its last millisecond and
\* dropped one created in the first millisecond of day 1
C6_Witness ==
  /\ Fetched
  /\ fetchedRange = Range(<<0>>, <<0>>)
  /\ \E i \in 1..Len(db) :
       db[i].created_at = <<0, LastMsOfDay, 0>> /\ db[i].id \in Ids(tickets)
  /\ \E i \in 1..Len(db) :
       db[i].created_at = <<1, 0, 0>> /\ db[i].id \notin Ids(tickets)

\* values the analyst filter can be given
FilterValues == {"all"} \cup Analysts

\* C7: the tickets behind the overall statistics are, for an admin with an
\* analyst selected, the assigned tickets of that analyst; for an admin with
\* 'all', every assigned ticket; for any other role, the tickets assigned to
\* the caller's own id whatever selectedAnalyst holds.
C7_RoleFilter ==
  /\ (role = "admin" /\ selectedAnalyst # "all")
       => Ids(Assigned) = {tickets[i].id : i \in {j \in 1..Len(tickets) :
                             tickets[j].assigned_to = selectedAnalyst}}
  /\ (role = "admin" /\ selectedAnalyst = "all")
       => Ids(Assigned) = {tickets[i].id : i \in {j \in 1..Len(tickets) :
                             tickets[j].assigned_to # Null}}
  /\ role # "admin"
       => \A sel \in FilterValues :
            /\ Ids(assignedTickets(tickets, role, sel, profileId))
                 = {tickets[i].id : i \in {j \in 1..Len(tickets) :
                      /\ tickets[j].assigned_to # Null
                      /\ tickets[j].assigned_to = profileId}}
            /\ overallStats(assignedTickets(tickets, role, sel, profileId)) = Overall

\* an analyst sees one own ticket counted while the fetch also returned a
\* ticket of another analyst
C7_Witness ==
  /\ role = "analyst"
  /\ profileId = "a1"
  /\ Len(tickets) = 2
  /\ \E i \in 1..Len(tickets) : tickets[i].assigned_to = "a2"
  /\ Overall.totalTickets = 1

\* C8: for role analyst the per-analyst list holds only an entry for the
\* caller's own id.
C8_AnalystSeesOnlyOwnEntry ==
  (role = "analyst" /\ profileId # Null)
    => \A k \in 1..Len(analystMetrics) : analystMetrics[k].analyst_id = profileId

\* sum of f[i] over the positions i in S
RECURSIVE SumOver(_, _)
SumOver(S, f) ==
  IF S = {} THEN 0
  ELSE LET i == CHOOSE x \in S : TRUE
       IN  f[i] + SumOver(S \ {i}, f)

\* value is the mean of f[i] over the positions i in S, 0 when S is empty
IsMean(value, S, f) ==
  IF S = {} THEN value = Zero
  ELSE value[1] * Cardinality(S) = SumOver(S, f) * value[2]

\* C9: totalTickets is the size of the role-filtered set, respondedTickets
\* and resolvedTickets count the non-null first_response_at and closed_at,
\* the two averages are the arithmetic means of the minutes over those
\* tickets and 0 when there is none; with no ticket all five values are 0
\* and the per-analyst list is empty.
C9_OverallStats ==
  /\ Overall.totalTickets = Cardinality(AssignedIdx)
  /\ Overall.respondedTickets = Cardinality(Responded(Assigned))
  /\ Overall.resolvedTickets = Cardinality(Resolved(Assigned))
  /\ IsMean(Overall.avgResponseTime, Responded(Assigned),
            [i \in Responded(Assigned) |-> ResponseMinutes(Assigned[i])])
  /\ IsMean(Overall.avgResolutionTime, Resolved(Assigned),
            [i \in Resolved(Assigned) |-> ResolutionMinutes(Assigned[i])])
  /\ tickets = << >>
       => /\ Overall = [totalTickets |-> 0, respondedTickets |-> 0,
                        resolvedTickets |-> 0, avgResponseTime |-> Zero,
                        avgResolutionTime |-> Zero]
          /\ analystMetrics = << >>

\* two answered tickets, 45 and 90 minutes, one of them closed
C9_Witness ==
  /\ ~loading
  /\ Overall.totalTickets = 2
  /\ Overall.respondedTickets = 2
  /\ Overall.avgResponseTime = <<135, 2>>
  /\ Overall.resolvedTickets = 1
  /\ Overall.avgResolutionTime = <<500, 1>>

\* positions in tickets of the tickets assigned to id
TicketsOf(id) == {i \in 1..Len(tickets) : tickets[i].assigned_to = id}

\* C10: for each entry of the per-analyst list total_tickets counts the
\* tickets assigned to that analyst, resolved_tickets those of them with a
\* closed_at, and the two compliances are 100 times compliant over
\* measurable tickets of that analyst (0 when none is measurable).
C10_PerAnalystCounts ==
  \A k \in 1..Len(analystMetrics) :
    LET m    == analystMetrics[k]
        mine == TicketsOf(m.analyst_id)
    IN  /\ m.total_tickets = Cardinality(mine)
        /\ m.resolved_tickets = Cardinality(mine \cap Resolved(tickets))
        /\ IsPercentage(m.sla_response_compliance,
                        Cardinality(mine \cap CompliantIdx(tickets, "response")),
                        Cardinality(mine \cap Responded(tickets)))
        /\ IsPercentage(m.sla_resolution_compliance,
                        Cardinality(mine \cap CompliantIdx(tickets, "resolution")),
                        Cardinality(mine \cap Resolved(tickets)))

\* an analyst with one ticket answered within the target and one ticket not
\* answered yet: compliance 100, total_tickets 2
C10_Witness ==
  \E k \in 1..Len(analystMetrics) :
    LET m    == analystMetrics[k]
        mine == TicketsOf(m.analyst_id)
    IN  /\ m.total_tickets = 2
        /\ Cardinality(mine \cap Responded(tickets)) = 1
        /\ Cardinality(mine \cap CompliantIdx(tickets, "response")) = 1
        /\ m.sla_response_compliance = <<100, 1>>

\* two fractions denote the same number
FracEq(x, y) == x[1] * y[2] = y[1] * x[2]

\* the tickets of analyst id, in the order of the fetched list
AnalystTickets(id) == SelectSeq(tickets, LAMBDA t : t.assigned_to = id)

\* the mean after the first k tickets of one analyst: a ticket with a first
\* response, at position k, turns mean into (mean * (k - 1) + sample) / k; a
\* ticket without one leaves it as it is
RECURSIVE ResponseFold(_, _)
ResponseFold(seq, k) ==
  IF k = 0 THEN <<0, 1>>
  ELSE LET mean == ResponseFold(seq, k - 1)
       IN  IF seq[k].first_response_at = NoTime THEN mean
           ELSE <<mean[1] * (k - 1) + ResponseMinutes(seq[k]) * mean[2], mean[2] * k>>

\* C11: avg_response_time of an analyst is the fold of the analyst's tickets
\* in input order, starting from 0, with mean := (mean * (n - 1) + sample) / n
\* on the tickets with a first response only, n being the position of the
\* ticket among all tickets of that analyst.
C11_ResponseRunningMean ==
  \A k \in 1..Len(analystMetrics) :
    LET seq == AnalystTickets(analystMetrics[k].analyst_id)
    IN  FracEq(analystMetrics[k].avg_response_time, ResponseFold(seq, Len(seq)))

\* an analyst whose first ticket has no first response and whose second was
\* answered after 45 minutes: 45 / 2
C11_Witness ==
  \E k \in 1..Len(analystMetrics) :
    LET seq == AnalystTickets(analystMetrics[k].analyst_id)
    IN  /\ Len(seq) = 2
        /\ seq[1].first_response_at = NoTime
        /\ seq[2].first_response_at # NoTime
        /\ ResponseMinutes(seq[2]) = 45
        /\ analystMetrics[k].avg_response_time = <<45, 2>>

\* C12: avg_resolution_time of an analyst is the arithmetic mean of the
\* minutes from created_at to closed_at over the analyst's closed tickets, 0
\* when there is none, whatever open tickets lie between them.
C12_ResolutionMean ==
  \A k \in 1..Len(analystMetrics) :
    LET closed == TicketsOf(analystMetrics[k].analyst_id) \cap Resolved(tickets)
    IN  IsMean(analystMetrics[k].avg_resolution_time, closed,
               [i \in closed |-> ResolutionMinutes(tickets[i])])

\* an analyst with an open ticket followed by a ticket closed after 300
\* minutes: the mean is 300
C12_Witness ==
  \E k \in 1..Len(analystMetrics) :
    LET seq == AnalystTickets(analystMetrics[k].analyst_id)
    IN  /\ Len(seq) = 2
        /\ seq[1].closed_at = NoTime
        /\ seq[2].closed_at # NoTime
        /\ analystMetrics[k].resolved_tickets = 1
        /\ analystMetrics[k].avg_resolution_time = <<300, 1>>

\* what the page shows for a fetched list tk: the overall statistics, the
\* two compliance percentages and the per-analyst list
StatsOf(tk) ==
  [overall  |-> overallStats(assignedTickets(tk, role, selectedAnalyst, profileId)),
   sla      |-> slaStats(assignedTickets(tk, role, selectedAnalyst, profileId)),
   analysts |-> calculateAnalystMetrics(SelectSeq(tk, LAMBDA t : t.assigned_to # Null))]

\* seq without its element at position i, and seq with t put after position k
RemoveAt(seq, i) == SubSeq(seq, 1, i - 1) \o SubSeq(seq, i + 1, Len(seq))
InsertAt(seq, k, t) == SubSeq(seq, 1, k) \o <<t>> \o SubSeq(seq, k + 1, Len(seq))

\* unassigned tickets to be added to a fetched list: answered and closed,
\* within both targets and past both
UnassignedPool ==
  {StatsTicket(0, [p |-> "high", f |-> <<45 * MsPerMinute>>,
                   cl |-> <<300 * MsPerMinute>>, a |-> Null]),
   StatsTicket(0, [p |-> "high", f |-> <<90 * MsPerMinute + 30000>>,
                   cl |-> <<500 * MsPerMinute>>, a |-> Null])}

\* C13: a ticket with a null assigned_to contributes to no statistic: the
\* per-analyst list on the page is the one of the assigned tickets alone,
\* and taking an unassigned ticket out of the fetched list, or putting one
\* into it at any position, leaves the overall statistics, the two
\* compliance percentages and the per-analyst list as they are.
C13_UnassignedIgnored ==
  LET shown == StatsOf(tickets)
  IN  /\ analystMetrics = shown.analysts
      /\ analystMetrics = calculateAnalystMetrics(tickets)
      /\ \A i \in 1..Len(tickets) :
           tickets[i].assigned_to = Null => StatsOf(RemoveAt(tickets, i)) = shown
      /\ \A k \in 0..Len(tickets), u \in UnassignedPool :
           StatsOf(InsertAt(tickets, k, u)) = shown

\* an admin looks at a fetched list of one assigned ticket and one
\* unassigned ticket that was answered and closed: one ticket is counted
C13_Witness ==
  /\ ~loading
  /\ role = "admin"
  /\ selectedAnalyst = "all"
  /\ Len(tickets) = 2
  /\ \E i \in 1..Len(tickets) :
       /\ tickets[i].assigned_to = Null
       /\ tickets[i].first_response_at # NoTime
       /\ tickets[i].closed_at # NoTime
  /\ Overall.totalTickets = 1
  /\ Len(analystMetrics) = 1

\* the rows a run for date range r keeps
FetchedTickets(r) == SelectSeq(db, LAMBDA t : InRange(t, r))

\* what a further run for the date range of the last result computes
Rerun == StatsOf(FetchedTickets(fetchedRange))

\* C14: a run of the aggregation on the list, date range, role, caller and
\* selected analyst of the run before it gives the same overall statistics,
\* compliance percentages and per-analyst list: what the page shows is what
\* a further run on the same input computes, a step that delivers a result
\* for the date range of the result before it leaves the ticket list and
\* the per-analyst list as they were, and no run modifies the rows it was
\* given.
C14_Idempotent ==
  /\ [](/\ tickets = FetchedTickets(fetchedRange)
        /\ analystMetrics = Rerun.analysts
        /\ Overall = Rerun.overall
        /\ Sla = Rerun.sla)
  /\ [][/\ db' = db
        /\ fetchedRange' = fetchedRange
             => (tickets' = tickets /\ analystMetrics' = analystMetrics)]_vars

\* the page shows the tickets of two analysts for the date range it was
\* mounted with, and a further fetch for that same range is in flight
C14_Witness ==
  /\ Fetched
  /\ Len(analystMetrics) = 2
  /\ Overall.totalTickets = 2
  /\ pending = {fetchedRange}

\* milliseconds from created_at to the first response and to the closure
ResponseMs(t) ==
  DifferenceInMilliseconds(ParseDate(t.first_response_at), ParseDate(t.created_at))
ResolutionMs(t) ==
  DifferenceInMilliseconds(ParseDate(t.closed_at), ParseDate(t.created_at))

\* q is ms / 60000 rounded down; q is ms / 60000 rounded toward zero
IsFloor(q, ms) == q * MsPerMinute <= ms /\ ms < (q + 1) * MsPerMinute
IsTruncation(q, ms) == IF ms >= 0 THEN IsFloor(q, ms) ELSE IsFloor(-q, -ms)

\* the averages on the page that rest on one sample, each with the
\* milliseconds of its sample: the overall averages over one answered or one
\* closed ticket, avg_response_time of an analyst with one ticket and
\* avg_resolution_time of an analyst with one closed ticket
SingleSamples ==
  {<<Overall.avgResponseTime, ResponseMs(Assigned[i])>> :
     i \in {j \in Responded(Assigned) : Responded(Assigned) = {j}}}
  \cup {<<Overall.avgResolutionTime, ResolutionMs(Assigned[i])>> :
          i \in {j \in Resolved(Assigned) : Resolved(Assigned) = {j}}}
  \cup UNION {{<<analystMetrics[k].avg_response_time, ResponseMs(tickets[i])>> :
                 i \in {j \in Responded(tickets) :
                          TicketsOf(analystMetrics[k].analyst_id) = {j}}} :
              k \in 1..Len(analystMetrics)}
  \cup UNION {{<<analystMetrics[k].avg_resolution_time, ResolutionMs(tickets[i])>> :
                 i \in {j \in Resolved(tickets) :
                          TicketsOf(analystMetrics[k].analyst_id)
                            \cap Resolved(tickets) = {j}}} :
              k \in 1..Len(analystMetrics)}

\* C15 as stated: every elapsed time is the milliseconds between the two
\* instants rounded down to whole minutes, also when the milestone lies
\* before created_at (minus 30 seconds gives minus 1), in every place it
\* is computed.
C15_FloorsEverywhere ==
  \A s \in SingleSamples : s[1][2] = 1 /\ IsFloor(s[1][1], s[2])

\* C15 as amended: every elapsed time is the milliseconds between the two
\* instants rounded toward zero to whole minutes (minus 30 seconds gives 0,
\* minus 90 seconds gives minus 1; the floor when the time is not
\* negative), in every place it is computed.
C15_TruncatesEverywhere ==
  \A s \in SingleSamples : s[1][2] = 1 /\ IsTruncation(s[1][1], s[2])

\* one ticket answered 30 seconds before created_at: the overall average
\* and the average of its analyst are 0
C15_Witness ==
  /\ ~loading
  /\ Len(Assigned) = 1
  /\ Assigned[1].first_response_at # NoTime
  /\ ResponseMs(Assigned[1]) = -30000
  /\ Overall.avgResponseTime = <<0, 1>>
  /\ \E k \in 1..Len(analystMetrics) :
       /\ analystMetrics[k].total_tickets = 1
       /\ analystMetrics[k].analyst_id = Assigned[1].assigned_to
       /\ analystMetrics[k].avg_response_time = <<0, 1>>

\* positions of the counted tickets answered before they were created
Early == {i \in Responded(Assigned) : ResponseMs(Assigned[i]) < 0}

\* whole minutes of ms milliseconds, the whole minutes of an early response
\* taken negative
WholeMinutes(ms) == IF ms >= 0 THEN ms \div MsPerMinute ELSE -((-ms) \div MsPerMinute)

\* the tickets answered early are counted as answered and as within the
\* response target, overall and for their analyst, and their whole minutes
\* are part of the overall mean
EarlyCounted ==
  /\ Overall.respondedTickets = Cardinality(Responded(Assigned))
  /\ IsPercentage(Sla.responseCompliance,
                  Cardinality(Early \cup CompliantIdx(Assigned, "response")),
                  Cardinality(Responded(Assigned)))
  /\ Early \subseteq CompliantIdx(Assigned, "response")
  /\ IsMean(Overall.avgResponseTime, Responded(Assigned),
            [i \in Responded(Assigned) |-> WholeMinutes(ResponseMs(Assigned[i]))])
  /\ \A i \in Early :
       \E k \in 1..Len(analystMetrics) :
         LET mine == TicketsOf(Assigned[i].assigned_to)
         IN  /\ analystMetrics[k].analyst_id = Assigned[i].assigned_to
             /\ analystMetrics[k].total_tickets = Cardinality(mine)
             /\ IsPercentage(analystMetrics[k].sla_response_compliance,
                             Cardinality(mine \cap CompliantIdx(tickets, "response")),
                             Cardinality(mine \cap Responded(tickets)))
             /\ Cardinality(mine) = 1
                  => analystMetrics[k].avg_response_time
                       = <<WholeMinutes(ResponseMs(Assigned[i])), 1>>

\* C16 as stated: a ticket whose first response lies before created_at gets
\* a negative elapsed time, is evaluated as within the target and has the
\* negative value in the averages; it is neither rejected nor skipped.
C16_NegativeElapsedCounted ==
  Early # {} =>
    /\ EarlyCounted
    /\ \A i \in Early : ResponseMinutes(Assigned[i]) < 0
    /\ Responded(Assigned) = Early => Overall.avgResponseTime[1] < 0

\* C16 as amended: a ticket whose first response lies before created_at gets
\* the elapsed time rounded toward zero, negative from one whole minute on
\* and 0 below it, is evaluated as within the target and has that value in
\* the averages; it is neither rejected nor skipped.
C16_EarlyResponseCounted ==
  Early # {} =>
    /\ EarlyCounted
    /\ \A i \in Early :
         /\ ResponseMinutes(Assigned[i]) <= 0
         /\ ResponseMinutes(Assigned[i]) < 0 <=> ResponseMs(Assigned[i]) <= -MsPerMinute
    /\ Responded(Assigned) = Early => Overall.avgResponseTime[1] <= 0

\* a ticket answered 90 seconds before created_at and one answered after 45
\* minutes: both answered, both within the target, mean (-1 + 45) / 2
C16_Witness ==
  /\ ~loading
  /\ Len(Assigned) = 2
  /\ \E i \in Early : ResponseMs(Assigned[i]) = -90000
  /\ Overall.respondedTickets = 2
  /\ Sla.responseCompliance = <<100, 1>>
  /\ Overall.avgResponseTime = <<22, 1>>

\* the per-analyst list computed for date range r
FetchedMetrics(r) ==
  calculateAnalystMetrics(SelectSeq(FetchedTickets(r), LAMBDA t : t.assigned_to # Null))

FirstMet(id) == CHOOSE i \in TicketsOf(id) : \A j \in TicketsOf(id) : i <= j

\* C18: the per-analyst list holds one entry for every analyst a fetched
\* ticket is assigned to and no other, no analyst twice, in the order in
\* which the analysts are first met in the fetched list, which is ordered
\* by created_at, latest first.
C18_OneEntryInFirstMetOrder ==
  /\ SortedDesc(tickets)
  /\ {analystMetrics[k].analyst_id : k \in 1..Len(analystMetrics)}
       = {tickets[i].assigned_to : i \in 1..Len(tickets)} \ {Null}
  /\ \A k, l \in 1..Len(analystMetrics) :
       k < l => /\ analystMetrics[k].analyst_id # analystMetrics[l].analyst_id
                /\ FirstMet(analystMetrics[k].analyst_id)
                     < FirstMet(analystMetrics[l].analyst_id)

\* the latest ticket belongs to a2 and the one before it to a1: the list
\* has the entry of a2 first
C18_Witness ==
  /\ Len(tickets) = 2
  /\ tickets[1].assigned_to = "a2"
  /\ tickets[2].assigned_to = "a1"
  /\ Len(analystMetrics) = 2
  /\ analystMetrics[1].analyst_id = "a2"
  /\ analystMetrics[2].analyst_id = "a1"

\* the orders a list of n tickets can be put in
Perms(n) == {p \in [1..n -> 1..n] : \A i, j \in 1..n : p[i] = p[j] => i = j}
Reordered(seq, p) == [i \in 1..Len(seq) |-> seq[p[i]]]

\* an entry of the per-analyst list without its avg_response_time
OrderFree(m) ==
  [analyst_id |-> m.analyst_id, total_tickets |-> m.total_tickets,
   resolved_tickets |-> m.resolved_tickets,
   avg_resolution_time |-> m.avg_resolution_time,
   sla_response_compliance |-> m.sla_response_compliance,
   sla_resolution_compliance |-> m.sla_resolution_compliance]

\* what the page shows for a list tk, but for the order of the per-analyst
\* list and the avg_response_time of its entries
OrderFreeStats(tk) ==
  LET st == StatsOf(tk)
  IN  [overall  |-> st.overall,
       sla      |-> st.sla,
       analysts |-> {OrderFree(st.analysts[k]) : k \in 1..Len(st.analysts)}]

\* C19: in whatever order the fetched tickets are put, the overall
\* statistics, the two overall compliance percentages and total_tickets,
\* resolved_tickets, avg_resolution_time and the two compliances of every
\* analyst are the same; avg_response_time alone may differ.
C19_OrderFree ==
  LET shown == OrderFreeStats(tickets)
  IN  \A p \in Perms(Len(tickets)) : OrderFreeStats(Reordered(tickets, p)) = shown

\* an analyst with two tickets, one of them without a first response, whose
\* avg_response_time is another with the two tickets swapped
C19_Witness ==
  /\ Len(tickets) = 2
  /\ tickets[1].assigned_to = tickets[2].assigned_to
  /\ Len(analystMetrics) = 1
  /\ \E p \in Perms(2) :
       LET other == StatsOf(Reordered(tickets, p)).analysts
       IN  /\ Len(other) = 1
           /\ OrderFree(other[1]) = OrderFree(analystMetrics[1])
           /\ other[1].avg_response_time # analystMetrics[1].avg_response_time

\* C20: for an admin the per-analyst list has an entry for every analyst
\* with an assigned ticket in the fetched window, counting all tickets of
\* that analyst, whatever selectedAnalyst holds; a change of selectedAnalyst
\* leaves the per-analyst list as it is, while the overall statistics
\* follow the selection.
C20_ListNotNarrowed ==
  /\ [](role = "admin" =>
          /\ {analystMetrics[k].analyst_id : k \in 1..Len(analystMetrics)}
               = {tickets[i].assigned_to : i \in 1..Len(tickets)} \ {Null}
          /\ \A k \in 1..Len(analystMetrics) :
               analystMetrics[k].total_tickets
                 = Cardinality(TicketsOf(analystMetrics[k].analyst_id))
          /\ selectedAnalyst # "all"
               => Overall.totalTickets = Cardinality(TicketsOf(selectedAnalyst)))
  /\ [][selectedAnalyst' # selectedAnalyst => analystMetrics' = analystMetrics]_vars

\* an admin has selected a1 on a page with one ticket of a1 and one of a2:
\* the overall statistics count one ticket, the list keeps both entries
C20_Witness ==
  /\ role = "admin"
  /\ selectedAnalyst = "a1"
  /\ Len(tickets) = 2
  /\ Overall.totalTickets = 1
  /\ Len(analystMetrics) = 2
  /\ \E k \in 1..Len(analystMetrics) :
       analystMetrics[k].analyst_id = "a2" /\ analystMetrics[k].total_tickets = 1

\* ------------------------------------------------------------------------
\* The running mean against the arithmetic mean (SpecFold)
\* ------------------------------------------------------------------------
\* x <= y for two fractions with positive denominators
FracLeq(x, y) == x[1] * y[2] <= y[1] * x[2]

\* positions in tickets of the answered tickets of analyst id
AnsweredOf(id) == TicketsOf(id) \cap Responded(tickets)

\* the response minutes of the fetched tickets, by position
ResponseSamples == [i \in Responded(tickets) |-> ResponseMinutes(tickets[i])]

\* no ticket of analyst id was answered before it was created
NonNegativeResponses(id) == \A i \in AnsweredOf(id) : ResponseSamples[i] >= 0

\* C21 as stated: with non-negative response times avg_response_time of an
\* analyst is at most the arithmetic mean of the response times of the
\* analyst's answered tickets.
C21_FoldAtMostMean ==
  \A k \in 1..Len(analystMetrics) :
    LET id       == analystMetrics[k].analyst_id
        answered == AnsweredOf(id)
    IN  (NonNegativeResponses(id) /\ answered # {})
          => FracLeq(analystMetrics[k].avg_response_time,
                     <<SumOver(answered, ResponseSamples), Cardinality(answered)>>)

\* C21 amended: with non-negative response times avg_response_time of an
\* analyst is never negative and never exceeds the largest response time of
\* the analyst's answered tickets (0 when none is answered); it is at most
\* the arithmetic mean when no unanswered ticket of the analyst comes before
\* an answered one in the fetched order.
C21_FoldAtMostLargest ==
  \A k \in 1..Len(analystMetrics) :
    LET id       == analystMetrics[k].analyst_id
        answered == AnsweredOf(id)
        avg      == analystMetrics[k].avg_response_time
    IN  NonNegativeResponses(id)
          => /\ FracLeq(Zero, avg)
             /\ answered = {} => avg = Zero
             /\ answered # {}
                  => \E i \in answered : FracLeq(avg, <<ResponseSamples[i], 1>>)
             /\ (answered # {}
                   /\ \A i \in answered : \A j \in TicketsOf(id) : j < i => j \in answered)
                  => FracLeq(avg, <<SumOver(answered, ResponseSamples),
                                    Cardinality(answered)>>)

\* 90 minutes, no first response, 45 minutes: the fold gives
\* (90 * 2 + 45) / 3 = 75, the arithmetic mean is 135 / 2
C21_Witness ==
  \E k \in 1..Len(analystMetrics) :
    LET seq == AnalystTickets(analystMetrics[k].analyst_id)
    IN  /\ Len(seq) = 3
        /\ seq[1].first_response_at # NoTime /\ ResponseMinutes(seq[1]) = 90
        /\ seq[2].first_response_at = NoTime
        /\ seq[3].first_response_at # NoTime /\ ResponseMinutes(seq[3]) = 45
        /\ analystMetrics[k].avg_response_time = <<75, 1>>

\* ------------------------------------------------------------------------
\* Overall statistics against the per-analyst list (SpecStats)
\* ------------------------------------------------------------------------
\* C30: respondedTickets and resolvedTickets are at most totalTickets, each
\* analyst's resolved_tickets is at most its total_tickets, and for an admin
\* with the filter 'all' totalTickets is the sum of total_tickets and
\* resolvedTickets the sum of resolved_tickets over the per-analyst list.
C30_StatsAgreeWithList ==
  LET K == 1..Len(analystMetrics)
  IN  /\ Overall.respondedTickets <= Overall.totalTickets
      /\ Overall.resolvedTickets <= Overall.totalTickets
      /\ \A k \in K : analystMetrics[k].resolved_tickets <= analystMetrics[k].total_tickets
      /\ (role = "admin" /\ selectedAnalyst = "all")
           => /\ Overall.totalTickets
                   = SumOver(K, [k \in K |-> analystMetrics[k].total_tickets])
              /\ Overall.resolvedTickets
                   = SumOver(K, [k \in K |-> analystMetrics[k].resolved_tickets])

\* an admin with the filter 'all' after a completed fetch of two tickets of
\* two analysts, one of the tickets closed
C30_Witness ==
  /\ role = "admin" /\ selectedAnalyst = "all" /\ ~loading
  /\ Len(analystMetrics) = 2
  /\ Overall.totalTickets = 2
  /\ Overall.respondedTickets = 1
  /\ Overall.resolvedTickets = 1
  /\ \E k \in 1..2 : analystMetrics[k].resolved_tickets = 1

\* ------------------------------------------------------------------------
\* The ticket page (src/src/pages/TicketDetail.tsx): one ticket, opened in
\* several browsers
\* ------------------------------------------------------------------------
\* An instant written by new Date().toISOString() is <<n>>, null is << >>.
Clients == {"c1", "c2"}

\* a row of public.ticket_statuses; closingWords holds those of 'fechado',
\* 'closed', 'resolvido' that name.toLowerCase() includes
TicketStatus(id, name, words) ==
  [id |-> id, name |-> name, closingWords |-> words, is_default |-> TRUE]

\* useTicketStatuses().statuses: the seeded rows in the order of order_index
statuses ==
  <<TicketStatus("s1", "Aberto", {}),
    TicketStatus("s4", "Em Progresso", {}),
    TicketStatus("s5", "Resolvido", {"resolvido"}),
    TicketStatus("s6", "Fechado", {"fechado"})>>

StatusIds == {statuses[i].id : i \in 1..Len(statuses)}

StatusOf(id) == statuses[CHOOSE i \in 1..Len(statuses) : statuses[i].id = id]

isClosingStatus(st) == \E w \in {"fechado", "closed", "resolvido"} : w \in st.closingWords

\* statuses.find(s => s.is_default) || statuses[0]
defaultStatus ==
  IF \E i \in 1..Len(statuses) : statuses[i].is_default
  THEN statuses[CHOOSE i \in 1..Len(statuses) :
                  /\ statuses[i].is_default
                  /\ \A j \in 1..(i - 1) : ~statuses[j].is_default]
  ELSE statuses[1]

\* ticket === null
NoTicket == [status_id |-> Null, first_response_at |-> NoTime, closed_at |-> NoTime]

\* isClosed of the page of browser c
isClosed(c) ==
  /\ ticketCopy[c] # NoTicket
  /\ isClosingStatus(StatusOf(ticketCopy[c].status_id))

\* fetchTicket() called by a handler of browser c; a page that was left
\* (navigate('/')) takes no result
CallFetchTicket(c) ==
  IF ticketCopy[c] = NoTicket
  THEN UNCHANGED ticketFetches
  ELSE ticketFetches' = [ticketFetches EXCEPT ![c] = TRUE]

\* the ticket as NewTicket created it, the page mounted in every browser
InitDetail ==
  /\ ticketRow = [status_id |-> "s1", first_response_at |-> NoTime, closed_at |-> NoTime]
  /\ ticket_messages = << >>
  /\ now = 1
  /\ detailStaff \in SUBSET Clients
  /\ ticketCopy = [c \in Clients |-> NoTicket]
  /\ ticketFetches = [c \in Clients |-> TRUE]
  /\ sending = [c \in Clients |-> "no"]
  /\ PageIdle
  /\ EvalIdle
  /\ InboundIdle
  /\ RestIdle

\* fetchTicket resumes with the row the query read: setTicket(data)
fetchTicketDone(c) ==
  /\ ticketFetches[c]
  /\ ticketCopy' = [ticketCopy EXCEPT ![c] = ticketRow]
  /\ ticketFetches' = [ticketFetches EXCEPT ![c] = FALSE]
  /\ UNCHANGED <<ticketRow, ticket_messages, now, detailStaff, sending>>
  /\ UNCHANGED <<pageVars, evalVars, inboundVars, restVars>>

\* fetchTicket resumes with an error: navigate('/') leaves the page
fetchTicketError(c) ==
  /\ ticketFetches[c]
  /\ ticketCopy' = [ticketCopy EXCEPT ![c] = NoTicket]
  /\ ticketFetches' = [ticketFetches EXCEPT ![c] = FALSE]
  /\ UNCHANGED <<ticketRow, ticket_messages, now, detailStaff, sending>>
  /\ UNCHANGED <<pageVars, evalVars, inboundVars, restVars>>

\* handleSendMessage up to the insert into ticket_messages (a failed insert
\* returns with nothing changed); the test of line 331 reads the ticket of
\* the render the handler was created in
handleSendMessage(c) ==
  /\ ticketCopy[c] # NoTicket
  /\ sending[c] = "no"
  /\ Len(ticket_messages) < MaxMessages
  /\ ticket_messages' = Append(ticket_messages, [sender_id |-> c])
  /\ sending' = [sending EXCEPT
                   ![c] = IF c \in detailStaff /\ ticketCopy[c].first_response_at = NoTime
                          THEN "track" ELSE "no"]
  /\ UNCHANGED <<ticketRow, now, detailStaff, ticketCopy, ticketFetches>>
  /\ UNCHANGED <<pageVars, evalVars, inboundVars, restVars>>

\* handleSendMessage, lines 331-337: update first_response_at, fetchTicket()
trackFirstResponse(c) ==
  /\ sending[c] = "track"
  /\ now < MaxClock
  /\ ticketRow' = [ticketRow EXCEPT !.first_response_at = <<now>>]
  /\ now' = now + 1
  /\ CallFetchTicket(c)
  /\ sending' = [sending EXCEPT ![c] = "no"]
  /\ UNCHANGED <<ticket_messages, detailStaff, ticketCopy>>
  /\ UNCHANGED <<pageVars, evalVars, inboundVars, restVars>>

\* handleStatusChange(statusId) with a successful update (a failed update
\* shows a toast and changes nothing)
handleStatusChange(c, statusId) ==
  LET isClosing == isClosingStatus(StatusOf(statusId))
      sets      == isClosing /\ ticketCopy[c].closed_at = NoTime
      clears    == ~isClosing /\ ticketCopy[c].closed_at # NoTime
  IN  /\ c \in detailStaff
      /\ ticketCopy[c] # NoTicket
      /\ sets => now < MaxClock
      /\ ticketRow' = [ticketRow EXCEPT
                         !.status_id = statusId,
                         !.closed_at = IF sets THEN <<now>>
                                       ELSE IF clears THEN NoTime ELSE @]
      /\ now' = IF sets THEN now + 1 ELSE now
      /\ CallFetchTicket(c)
      /\ UNCHANGED <<ticket_messages, detailStaff, ticketCopy, sending>>
      /\ UNCHANGED <<pageVars, evalVars, inboundVars, restVars>>

\* handleReopen with a successful reopenTicket(id, defaultStatus.id)
handleReopen(c) ==
  /\ isClosed(c)
  /\ ticketRow' = [ticketRow EXCEPT !.status_id = defaultStatus.id, !.closed_at = NoTime]
  /\ CallFetchTicket(c)
  /\ UNCHANGED <<ticket_messages, now, detailStaff, ticketCopy, sending>>
  /\ UNCHANGED <<pageVars, evalVars, inboundVars, restVars>>

NextDetail ==
  \E c \in Clients :
    \/ fetchTicketDone(c)
    \/ fetchTicketError(c)
    \/ handleSendMessage(c)
    \/ trackFirstResponse(c)
    \/ \E statusId \in StatusIds : handleStatusChange(c, statusId)
    \/ handleReopen(c)

SpecDetail == InitDetail /\ [][NextDetail]_vars

\* ------------------------------------------------------------------------
\* Claims about the milestones the ticket page writes (SpecDetail)
\* ------------------------------------------------------------------------
\* C22: once first_response_at of the ticket is non-null no later step of a
\* message send changes it, whichever browsers send and in whatever order.
C22_FirstResponseKept ==
  [][ticketRow.first_response_at # NoTime
       => ticketRow'.first_response_at = ticketRow.first_response_at]_vars

\* C23: closed_at of the ticket is non-null exactly when its status is a
\* closing status, after any sequence of status changes and reopenings.
C23_ClosedIffClosingStatus ==
  (ticketRow.closed_at # NoTime) <=> isClosingStatus(StatusOf(ticketRow.status_id))

\* ------------------------------------------------------------------------
\* The inbound-email function (src/supabase/functions/inbound-email/index.ts)
\* ------------------------------------------------------------------------
\* A header value is a sequence of characters, << >> when the header is
\* absent or empty.  The recipient address is the sequence of its parts.
ToleranceSeconds == 300

DigitChars == <<"0", "1", "2", "3", "4", "5", "6", "7", "8", "9">>

IsDigit(ch) == \E i \in 1..10 : DigitChars[i] = ch

DigitValue(ch) == (CHOOSE i \in 1..10 : DigitChars[i] = ch) - 1

\* the number of digits str starts with
LeadingDigits(str) ==
  IF \E k \in 1..Len(str) : ~IsDigit(str[k])
  THEN (CHOOSE k \in 1..Len(str) :
          ~IsDigit(str[k]) /\ \A j \in 1..(k - 1) : IsDigit(str[j])) - 1
  ELSE Len(str)

RECURSIVE DecimalValue(_, _)
DecimalValue(str, k) ==
  IF k = 0 THEN 0 ELSE DecimalValue(str, k - 1) * 10 + DigitValue(str[k])

NaN == [nan |-> TRUE, value |-> 0]

\* parseInt(str, 10): an optional '-', then the leading digits; NaN when
\* there is no digit
parseInt(str) ==
  LET negative == Len(str) > 0 /\ str[1] = "-"
      digits   == IF negative THEN Tail(str) ELSE str
      k        == LeadingDigits(digits)
  IN  IF k = 0 THEN NaN
      ELSE [nan |-> FALSE,
            value |-> IF negative THEN -DecimalValue(digits, k)
                      ELSE DecimalValue(digits, k)]

\* Math.abs(now - timestamp) > 300: a comparison with NaN is false
TimestampTooOld(timestamp) ==
  ~timestamp.nan /\ Abs(dateNow - timestamp.value) > ToleranceSeconds

\* HMAC-SHA256 of `${svixId}.${svixTimestamp}.${payload}` under the secret,
\* base64: equal exactly when secret, id, timestamp and payload are equal
Hmac(secret, svixId, svixTimestamp, payload) == <<secret, svixId, svixTimestamp, payload>>

\* verifyWebhookSignature: some signature of the header is the expected one
verifyWebhookSignature(payload, svixId, svixTimestamp, svixSignature, secret) ==
  \E i \in 1..Len(svixSignature) :
    svixSignature[i] = Hmac(secret, svixId, svixTimestamp, payload)

\* rows of profiles, the ticket, and the users is_staff() is true for
InboundProfiles ==
  {[id |-> "u1", email |-> "u1@mail"], [id |-> "u2", email |-> "u2@mail"],
   [id |-> "a1", email |-> "a1@mail"], [id |-> "a2", email |-> "a2@mail"]}

InboundTickets == {[id |-> "t1", created_by |-> "u1", assigned_to |-> "a1"]}

InboundStaff == {"a1", "a2"}

\* to?.match(/ticket-([a-f0-9-]+)@/i)
ticketMatch(to) ==
  IF Len(to) >= 3 /\ to[1] = "ticket-" /\ to[3] = "@" THEN to[2] ELSE Null

\* what the handler does with the request: the response, and whether it
\* reaches the insert into ticket_messages
serveInbound(req) ==
  LET Reply(st, text) == [status |-> st, body |-> text, insert |-> FALSE, sender |-> Null]
      ticketId == ticketMatch(req.payload.to)
      profile  == {p \in InboundProfiles : p.email = req.payload.from}
      found    == {t \in InboundTickets : t.id = ticketId}
      hasAccess ==
        \E p \in profile : \E t \in found :
          t.created_by = p.id \/ t.assigned_to = p.id \/ p.id \in InboundStaff
  IN  IF req.method = "OPTIONS" THEN Reply(200, Null)
      ELSE IF webhookSecret = Null THEN Reply(500, "Webhook secret not configured")
      ELSE IF req.svixId = << >> \/ req.svixTimestamp = << >> \/ req.svixSignature = << >>
        THEN Reply(401, "Missing signature headers")
      ELSE IF TimestampTooOld(parseInt(req.svixTimestamp))
        THEN Reply(401, "Timestamp too old")
      ELSE IF ~verifyWebhookSignature(req.payload, req.svixId, req.svixTimestamp,
                                      req.svixSignature, webhookSecret)
        THEN Reply(401, "Invalid signature")
      ELSE IF ticketId = Null THEN Reply(200, "No ticket ID found")
      ELSE IF profile = {} THEN Reply(200, "Sender not found")
      ELSE IF found = {} THEN Reply(200, "Ticket not found")
      ELSE IF ~hasAccess THEN Reply(403, "Access denied")
      ELSE [status |-> 200, body |-> "success", insert |-> TRUE,
            sender |-> (CHOOSE p \in profile : TRUE).id]

\* the requests the function is sent: the clock of the function reads 1000
\* seconds; timestamps 301 and 300 seconds before it, 301 after it, 'x', and
\* '1000x'; a signature made with the secret for this request, one made with
\* another key, one made with the secret for another timestamp
InboundTimestamps ==
  {<< >>, <<"6", "9", "9">>, <<"7", "0", "0">>, <<"1", "3", "0", "1">>, <<"x">>,
   <<"1", "0", "0", "0", "x">>}

InboundPayloads ==
  [to : {<<"ticket-", "t1", "@", "inbound">>, <<"ticket-", "t9", "@", "inbound">>,
         <<"support", "@", "inbound">>},
   from : {"u1@mail", "u2@mail", "a1@mail", "a2@mail", "nobody@mail"}]

InboundSignatures(id, ts, payload) ==
  {<< >>,
   <<Hmac("whsec", id, ts, payload)>>,
   <<Hmac("other", id, ts, payload)>>,
   <<Hmac("whsec", id, <<"1", "0", "0", "0">>, payload)>>,
   <<Hmac("other", id, ts, payload), Hmac("whsec", id, ts, payload)>>}

InitInbound ==
  /\ webhookSecret \in {Null, "whsec"}
  /\ dateNow = 1000
  /\ inboundReq = NoRequest
  /\ inboundRes = NoResponse
  /\ ticket_messages = << >>
  /\ ticketRow = [status_id |-> Null, first_response_at |-> NoTime, closed_at |-> NoTime]
  /\ now = 0
  /\ detailStaff = {}
  /\ ticketCopy = << >>
  /\ ticketFetches = << >>
  /\ sending = << >>
  /\ PageIdle
  /\ EvalIdle
  /\ RestIdle

\* one request handled from its first line to its response; the insert
\* itself may fail, which ends in the catch with status 500
serve ==
  \E method \in {"POST", "OPTIONS"}, id \in {<< >>, <<"m", "1">>},
     ts \in InboundTimestamps, payload \in InboundPayloads :
    \E sig \in InboundSignatures(id, ts, payload), insertOk \in BOOLEAN :
      LET req == [method |-> method, svixId |-> id, svixTimestamp |-> ts,
                  svixSignature |-> sig, payload |-> payload]
          out == serveInbound(req)
      IN  /\ Len(ticket_messages) < MaxMessages
          /\ method = "OPTIONS" => (id = << >> /\ sig = << >>)
          /\ id = << >> => (ts = <<"7", "0", "0">> /\ payload.from = "u1@mail")
          /\ insertOk \/ out.insert
          /\ inboundReq' = req
          /\ IF out.insert /\ insertOk
             THEN /\ ticket_messages' =
                       Append(ticket_messages, [sender_id |-> out.sender])
                  /\ inboundRes' = [status |-> 200, body |-> "success"]
             ELSE /\ UNCHANGED ticket_messages
                  /\ inboundRes' = IF out.insert
                                   THEN [status |-> 500, body |-> "Failed to create message"]
                                   ELSE [status |-> out.status, body |-> out.body]
          /\ UNCHANGED <<webhookSecret, dateNow>>
          /\ UNCHANGED <<ticketRow, now, detailStaff, ticketCopy, ticketFetches, sending>>
          /\ UNCHANGED <<pageVars, evalVars, restVars>>

NextInbound == serve

SpecInbound == InitInbound /\ [][NextInbound]_vars

\* ------------------------------------------------------------------------
\* Claims about the inbound-email function (SpecInbound)
\* ------------------------------------------------------------------------
\* the timestamp header is a whole number of seconds
IsSeconds(str) == Len(str) > 0 /\ \A k \in 1..Len(str) : IsDigit(str[k])

\* every condition C24 lists holds for the request
AllConditionsHold(req) ==
  /\ webhookSecret # Null
  /\ req.svixId # << >> /\ req.svixTimestamp # << >> /\ req.svixSignature # << >>
  /\ IsSeconds(req.svixTimestamp)
  /\ Abs(dateNow - DecimalValue(req.svixTimestamp, Len(req.svixTimestamp)))
       <= ToleranceSeconds
  /\ \E i \in 1..Len(req.svixSignature) :
       req.svixSignature[i] = <<webhookSecret, req.svixId, req.svixTimestamp, req.payload>>
  /\ \E t \in InboundTickets : req.payload.to = <<"ticket-", t.id, "@", "inbound">>
       /\ \E p \in InboundProfiles :
            /\ p.email = req.payload.from
            /\ t.created_by = p.id \/ t.assigned_to = p.id \/ p.id \in InboundStaff

\* C24: the function inserts a ticket message only when the secret is
\* configured, the three svix headers are present, the timestamp is within
\* 300 seconds of the current time, a signature of the header is the HMAC of
\* 'id.timestamp.body', the recipient names an existing ticket, the sender's
\* email matches a profile and that profile is creator, assignee or staff.
C24_InsertOnlyWhenVerified ==
  [][ticket_messages' # ticket_messages => AllConditionsHold(inboundReq')]_vars

\* ------------------------------------------------------------------------
\* The admin-user-management function
\* (src/supabase/functions/admin-user-management/index.ts, lines 1-209)
\* ------------------------------------------------------------------------
\* the ids of auth.users; a bearer token is the id of its user
AdminUsers == {"u1", "a1", "ad1"}

\* the values of the enum app_role
app_role == {"admin", "analyst", "user"}

\* a has_role that is true for every staff member
has_role_AnyStaff(_user_id, _role) ==
  \E r \in user_roles : r.user_id = _user_id /\ r.role \in {"admin", "analyst"}

\* public.has_role(_user_id, _role)
has_role(_user_id, _role) ==
  \E r \in user_roles : r.user_id = _user_id /\ r.role = _role

\* public.is_staff(_user_id)
is_staff(_user_id) ==
  \E r \in user_roles : r.user_id = _user_id /\ r.role \in {"admin", "analyst"}

\* userClient.auth.getUser(): the user of the token, Null for a token that
\* is no user's
getUser(authHeader) == IF authHeader \in AdminUsers THEN authHeader ELSE Null

\* the insert into user_roles succeeds for a user of auth.users and a value
\* of app_role, unless the database fails
InsertAccepted(userId, newRole, dbOk) ==
  dbOk /\ userId \in AdminUsers /\ newRole \in app_role

\* what the handler answers and what it leaves in user_roles
adminServe(req, dbOk) ==
  LET Reply(st, text) == [status |-> st, body |-> text, roles |-> user_roles]
      currentUser == getUser(req.authorization)
      deleted     == {r \in user_roles : r.user_id # req.userId}
  IN  IF req.method = "OPTIONS" THEN Reply(200, Null)
      ELSE IF req.authorization = Null THEN Reply(401, "Não autorizado")
      ELSE IF currentUser = Null THEN Reply(401, "Usuário não autenticado")
      ELSE IF ~is_staff(currentUser) THEN Reply(403, "Acesso negado")
      ELSE IF req.action = "list_users" THEN Reply(200, "users")
      ELSE IF req.action = "update_role"
        THEN IF req.userId = Null \/ req.role = Null
               THEN Reply(400, "userId e role são obrigatórios")
             ELSE IF ~has_role(currentUser, "admin")
               THEN Reply(403, "Apenas administradores podem alterar funções")
             ELSE IF InsertAccepted(req.userId, req.role, dbOk)
               THEN [status |-> 200, body |-> "success",
                     roles |-> deleted \cup {[user_id |-> req.userId, role |-> req.role]}]
             ELSE [status |-> 500, body |-> "error", roles |-> deleted]
      ELSE Reply(400, "Ação inválida")

\* every user has the role the sign-up trigger or an admin gave; u1 may hold
\* a second row
InitAdmin ==
  /\ \E extra \in SUBSET {[user_id |-> "u1", role |-> "analyst"]} :
       user_roles = {[user_id |-> "u1", role |-> "user"],
                     [user_id |-> "a1", role |-> "analyst"],
                     [user_id |-> "ad1", role |-> "admin"]} \cup extra
  /\ adminReq = NoRequest
  /\ adminRes = NoResponse
  /\ PageIdle
  /\ EvalIdle
  /\ DetailIdle
  /\ InboundIdle
  /\ ResetIdle
  /\ UnreadIdle
  /\ AuthIdle

\* one request handled from its first line to its response
adminRequest ==
  \E method \in {"POST", "OPTIONS"},
     authorization \in {Null, "expired", "u1", "a1", "ad1"},
     action \in {"list_users", "update_role", "bogus"},
     userId \in {Null, "u1", "ad1", "ghost"},
     newRole \in {Null, "analyst", "admin", "root"},
     dbOk \in BOOLEAN :
    LET req == [method |-> method, authorization |-> authorization, action |-> action,
                userId |-> userId, role |-> newRole]
        out == adminServe(req, dbOk)
    IN  /\ method = "OPTIONS" => (authorization = Null /\ action = "list_users")
        /\ action # "update_role" => (userId = Null /\ newRole = Null)
        /\ adminReq' = req
        /\ adminRes' = [status |-> out.status, body |-> out.body]
        /\ user_roles' = out.roles
        /\ UNCHANGED <<pageVars, evalVars, detailVars, inboundVars, resetVars,
                       unreadVars, authVars>>

NextAdmin == adminRequest

SpecAdmin == InitAdmin /\ [][NextAdmin]_vars

\* ------------------------------------------------------------------------
\* Claims about update_role (SpecAdmin)
\* ------------------------------------------------------------------------
\* user_roles has the row (uid, admin)
HoldsAdminRow(uid) == [user_id |-> uid, role |-> "admin"] \in user_roles

HoldsStaffRow(uid) ==
  \E r \in {"admin", "analyst"} : [user_id |-> uid, role |-> r] \in user_roles

\* the user the token of the request belongs to, Null without a valid token
Caller(req) == IF req.authorization \in AdminUsers THEN req.authorization ELSE Null

\* user_roles changes only in an update_role step of an authenticated admin;
\* an unauthenticated caller gets 401 and a caller who is not staff 403,
\* with user_roles as it was
OnlyAdminsWrite ==
  LET req    == adminReq'
      caller == Caller(req)
  IN  /\ user_roles' # user_roles
           => (req.action = "update_role" /\ caller # Null /\ HoldsAdminRow(caller))
      /\ (req.method = "POST" /\ caller = Null)
           => (adminRes'.status = 401 /\ user_roles' = user_roles)
      /\ (req.method = "POST" /\ caller # Null /\ ~HoldsStaffRow(caller))
           => (adminRes'.status = 403 /\ user_roles' = user_roles)

\* C25 as stated: only an authenticated admin changes user_roles; every
\* update_role request of a caller without the admin role is answered 403
\* with user_roles unchanged; an unauthenticated or non-staff caller is
\* rejected with 401 or 403.
C25_NonAdminGets403 ==
  [][/\ OnlyAdminsWrite
     /\ (adminReq'.method = "POST" /\ adminReq'.action = "update_role"
           /\ Caller(adminReq') # Null /\ ~HoldsAdminRow(Caller(adminReq')))
          => (adminRes'.status = 403 /\ user_roles' = user_roles)]_vars

\* C25 amended: as above, but a staff caller without the admin role gets 403
\* when the request names userId and role, and 400 when one of them is
\* missing; user_roles is unchanged in both cases.
C25_OnlyAdminsChangeRoles ==
  [][/\ OnlyAdminsWrite
     /\ (adminReq'.method = "POST" /\ adminReq'.action = "update_role"
           /\ Caller(adminReq') # Null /\ ~HoldsAdminRow(Caller(adminReq')))
          => /\ user_roles' = user_roles
             /\ adminRes'.status =
                  IF ~HoldsStaffRow(Caller(adminReq')) THEN 403
                  ELSE IF adminReq'.userId = Null \/ adminReq'.role = Null THEN 400
                  ELSE 403]_vars

\* the analyst a1 asked for the role admin for u1 and was answered 403
C25_Witness ==
  /\ adminReq.method = "POST"
  /\ adminReq.action = "update_role"
  /\ adminReq.authorization = "a1"
  /\ adminReq.userId = "u1"
  /\ adminReq.role = "admin"
  /\ adminRes = [status |-> 403, body |-> "Apenas administradores podem alterar funções"]
  /\ ~HoldsAdminRow("u1")

\* C27: an update_role request that ends with an error response leaves
\* user_roles as it was before the request.
C27_ErrorLeavesRolesAlone ==
  [][(adminReq'.method = "POST" /\ adminReq'.action = "update_role"
        /\ adminRes'.status >= 400)
       => user_roles' = user_roles]_vars

\* ------------------------------------------------------------------------
\* The send-reset-password function
\* (src/supabase/functions/admin-user-management/index.ts, lines 211-399)
\* ------------------------------------------------------------------------
ResetEmails == {"e1@mail", "e2@mail", "e3@mail"}

\* the response to a request when auth.users has accounts for the emails in
\* users; req.generateLinkOk is the outcome of auth.admin.generateLink
sendResetPassword(req, users) ==
  IF req.method = "OPTIONS" THEN [status |-> 200, body |-> "ok"]
  ELSE IF req.method # "POST" THEN [status |-> 405, body |-> "Method not allowed"]
  ELSE IF req.email = Null THEN [status |-> 400, body |-> "Email is required"]
  ELSE IF resendApiKey = Null
    THEN [status |-> 500, body |-> "Email service not configured"]
  ELSE IF req.email \notin users
    THEN [status |-> 200,
          body |-> "If an account exists with this email, a reset link has been sent"]
  ELSE IF ~req.generateLinkOk
    THEN [status |-> 500, body |-> "Failed to generate reset link"]
  ELSE IF ~resendUp THEN [status |-> 500, body |-> "Failed to send email"]
  ELSE [status |-> 200, body |-> "Password reset email sent successfully"]

InitReset ==
  /\ authUsers \in SUBSET ResetEmails
  /\ resendApiKey \in {Null, "re_key"}
  /\ resendUp \in BOOLEAN
  /\ resetReq = NoRequest
  /\ resetRes = NoResponse
  /\ PageIdle
  /\ EvalIdle
  /\ DetailIdle
  /\ InboundIdle
  /\ AdminIdle
  /\ UnreadIdle
  /\ AuthIdle

\* one request handled from its first line to its response
resetRequest ==
  \E method \in {"POST", "GET", "OPTIONS"}, email \in ResetEmails \cup {Null},
     generateLinkOk \in BOOLEAN :
    LET req == [method |-> method, email |-> email, generateLinkOk |-> generateLinkOk]
    IN  /\ method # "POST" => (email = Null /\ generateLinkOk)
        /\ resetReq' = req
        /\ resetRes' = sendResetPassword(req, authUsers)
        /\ UNCHANGED <<authUsers, resendApiKey, resendUp>>
        /\ UNCHANGED <<pageVars, evalVars, detailVars, inboundVars, adminVars,
                       unreadVars, authVars>>

NextReset == resetRequest

SpecReset == InitReset /\ [][NextReset]_vars

\* ------------------------------------------------------------------------
\* Claims about send-reset-password (SpecReset)
\* ------------------------------------------------------------------------
\* the accounts with the one for email e added if absent, removed if present
Flipped(e) == IF e \in authUsers THEN authUsers \ {e} ELSE authUsers \cup {e}

\* C26: for a well-formed POST with a non-empty email and with email
\* delivery working, status and body of the response are the same whether
\* or not an account exists for the email.
C26_ExistenceNotRevealed ==
  (/\ resetReq.method = "POST"
   /\ resetReq.email # Null
   /\ resetReq.generateLinkOk
   /\ resendApiKey # Null
   /\ resendUp)
    => resetRes = sendResetPassword(resetReq, Flipped(resetReq.email))

\* ------------------------------------------------------------------------
\* Unread counts: useUnreadMessages (src/src/hooks/useTickets.ts) and
\* NotificationListener (src/unnamed/part_001) of one signed-in user
\* ------------------------------------------------------------------------
\* A counts object is a function from ticket id to count; a ticket id that
\* is not a key of the object has count 0.  JSON.stringify and JSON.parse
\* take such an object to itself.
Me == "me"

\* the tickets messages arrive on, with their creators; the user is not staff
UnreadTickets == {"t1", "t2", "t3"}

created_by(t) == IF t = "t3" THEN "other" ELSE Me

NoCounts == [t \in UnreadTickets |-> 0]

Item(counts) == [present |-> TRUE, counts |-> counts]

\* both components mounted over what an earlier visit left in localStorage
InitUnread ==
  /\ \E stored \in {NoItem} \cup {Item(c) : c \in [UnreadTickets -> {0, 1}]} :
       /\ stored.present => stored.counts["t3"] = 0
       /\ localStorage = stored
       /\ unreadCounts = IF stored.present THEN stored.counts ELSE NoCounts
       /\ unreadCountsRef = IF stored.present THEN stored.counts ELSE NoCounts
  /\ delivered = << >>
  /\ PageIdle
  /\ EvalIdle
  /\ DetailIdle
  /\ InboundIdle
  /\ AdminIdle
  /\ ResetIdle
  /\ AuthIdle

\* markAsRead(ticketId), with the saveUnreadCounts inside its updater
markAsRead(ticketId) ==
  /\ unreadCounts' = [unreadCounts EXCEPT ![ticketId] = 0]
  /\ localStorage' = Item([unreadCounts EXCEPT ![ticketId] = 0])
  /\ UNCHANGED <<unreadCountsRef, delivered>>
  /\ UNCHANGED <<pageVars, evalVars, detailVars, inboundVars, adminVars, resetVars,
                 authVars>>

\* loadUnreadCounts(): the 2-second poll, the 'unread-updated' event and the
\* mount of the hook
loadUnreadCounts ==
  /\ localStorage.present
  /\ unreadCounts' = localStorage.counts
  /\ UNCHANGED <<localStorage, unreadCountsRef, delivered>>
  /\ UNCHANGED <<pageVars, evalVars, detailVars, inboundVars, adminVars, resetVars,
                 authVars>>

\* the effect of NotificationListener runs again (profile or isStaff changed)
listenerMount ==
  /\ localStorage.present
  /\ unreadCountsRef' = localStorage.counts
  /\ UNCHANGED <<localStorage, unreadCounts, delivered>>
  /\ UNCHANGED <<pageVars, evalVars, detailVars, inboundVars, adminVars, resetVars,
                 authVars>>

\* the postgres_changes callback of NotificationListener for one inserted
\* message, with the storage event it dispatches to the hook
onMessage(ticket_id, sender_id) ==
  LET hasAccess     == created_by(ticket_id) = Me
      currentCounts == [unreadCountsRef EXCEPT ![ticket_id] = @ + 1]
  IN  /\ Len(delivered) < MaxDelivered
      /\ unreadCountsRef[ticket_id] < MaxUnread
      /\ delivered' = Append(delivered, [ticket_id |-> ticket_id, sender_id |-> sender_id])
      /\ IF sender_id = Me \/ ~hasAccess
         THEN UNCHANGED <<localStorage, unreadCounts, unreadCountsRef>>
         ELSE /\ unreadCountsRef' = currentCounts
              /\ localStorage' = Item(currentCounts)
              /\ unreadCounts' = currentCounts
      /\ UNCHANGED <<pageVars, evalVars, detailVars, inboundVars, adminVars, resetVars,
                     authVars>>

NextUnread ==
  \/ \E t \in UnreadTickets : markAsRead(t)
  \/ loadUnreadCounts
  \/ listenerMount
  \/ \E t \in UnreadTickets, sender \in {Me, "other"} : onMessage(t, sender)

SpecUnread == InitUnread /\ [][NextUnread]_vars

\* ------------------------------------------------------------------------
\* Claims about the unread counts (SpecUnread)
\* ------------------------------------------------------------------------
\* C28: a stored count of ticket t that is absent stays absent until a new
\* message on t from another user arrives: a message on another ticket and
\* the reload from localStorage do not bring a count of t back.
C28_ReadStaysRead ==
  [][\A t \in UnreadTickets :
       (localStorage.present /\ localStorage.counts[t] = 0 /\ localStorage'.counts[t] > 0)
         => /\ Len(delivered') = Len(delivered) + 1
            /\ delivered'[Len(delivered')].ticket_id = t
            /\ delivered'[Len(delivered')].sender_id # Me]_vars

\* ------------------------------------------------------------------------
\* The auth context (src/src/contexts/AuthContext.tsx).  role and profileId
\* are the role and profile?.id every page reads through useAuth().
\* ------------------------------------------------------------------------
AuthUsers == {"ad1", "a1", "u1"}

\* the rows of user_roles of a user, as fetchRole selects them
RolesOf(userId) ==
  IF userId = "ad1" THEN {"admin", "analyst"}
  ELSE IF userId = "a1" THEN {"analyst"}
  ELSE {"user"}

\* the state of the page that the provider does not hold
outsideAuthVars == <<db, dateRange, selectedAnalyst, tickets, analystMetrics, loading,
                     pending, fetchedRange>>

Call(kind, userId) == [kind |-> kind, userId |-> userId]

\* the provider mounted: the listener registered, getSession() called
InitAuth ==
  /\ session = Null
  /\ authLoading = TRUE
  /\ authFetches = {Call("getSession", Null)}
  /\ PageIdle
  /\ EvalIdle
  /\ DetailIdle
  /\ InboundIdle
  /\ AdminIdle
  /\ ResetIdle
  /\ UnreadIdle

\* the callback of onAuthStateChange with the session of the event
onAuthStateChange(s) ==
  /\ session' = s
  /\ IF s # Null
     THEN /\ authFetches' = authFetches \cup {Call("timeout", s)}
          /\ UNCHANGED <<role, profileId>>
     ELSE /\ profileId' = Null
          /\ role' = "user"
          /\ UNCHANGED authFetches
  /\ authLoading' = FALSE
  /\ UNCHANGED <<outsideAuthVars, evalVars, detailVars, inboundVars, adminVars,
                 resetVars, unreadVars>>

\* the setTimeout callback: fetchProfile and fetchRole are called
timeoutFires(userId) ==
  /\ Call("timeout", userId) \in authFetches
  /\ authFetches' = (authFetches \ {Call("timeout", userId)})
                      \cup {Call("fetchProfile", userId), Call("fetchRole", userId)}
  /\ UNCHANGED <<session, authLoading, role, profileId>>
  /\ UNCHANGED <<outsideAuthVars, evalVars, detailVars, inboundVars, adminVars,
                 resetVars, unreadVars>>

\* getSession() resolves with the session the client holds
getSessionResolves(s) ==
  /\ Call("getSession", Null) \in authFetches
  /\ session' = s
  /\ authFetches' = (authFetches \ {Call("getSession", Null)})
                      \cup (IF s # Null
                            THEN {Call("fetchProfile", s), Call("fetchRole", s)}
                            ELSE {})
  /\ authLoading' = FALSE
  /\ UNCHANGED <<role, profileId>>
  /\ UNCHANGED <<outsideAuthVars, evalVars, detailVars, inboundVars, adminVars,
                 resetVars, unreadVars>>

\* fetchProfile resumes: setProfile(data) when the query gave a row
fetchProfile(userId, ok) ==
  /\ Call("fetchProfile", userId) \in authFetches
  /\ authFetches' = authFetches \ {Call("fetchProfile", userId)}
  /\ profileId' = IF ok THEN userId ELSE profileId
  /\ UNCHANGED <<session, authLoading, role>>
  /\ UNCHANGED <<outsideAuthVars, evalVars, detailVars, inboundVars, adminVars,
                 resetVars, unreadVars>>

\* fetchRole resumes: the highest role of the rows, 'user' on an error
fetchRole(userId, ok) ==
  /\ Call("fetchRole", userId) \in authFetches
  /\ authFetches' = authFetches \ {Call("fetchRole", userId)}
  /\ role' = IF ok /\ RolesOf(userId) # {}
             THEN IF "admin" \in RolesOf(userId) THEN "admin"
                  ELSE IF "analyst" \in RolesOf(userId) THEN "analyst"
                  ELSE "user"
             ELSE "user"
  /\ UNCHANGED <<session, authLoading, profileId>>
  /\ UNCHANGED <<outsideAuthVars, evalVars, detailVars, inboundVars, adminVars,
                 resetVars, unreadVars>>

\* signOut() is called: supabase.auth.signOut() ends the session and the
\* listener is told SIGNED_OUT before the await returns
signOutCalled ==
  /\ session # Null
  /\ Call("signOut", Null) \notin authFetches
  /\ session' = Null
  /\ profileId' = Null
  /\ role' = "user"
  /\ authLoading' = FALSE
  /\ authFetches' = authFetches \cup {Call("signOut", Null)}
  /\ UNCHANGED <<outsideAuthVars, evalVars, detailVars, inboundVars, adminVars,
                 resetVars, unreadVars>>

\* signOut() resumes after the await: setProfile(null), setRole('user')
signOutResumes ==
  /\ Call("signOut", Null) \in authFetches
  /\ authFetches' = authFetches \ {Call("signOut", Null)}
  /\ profileId' = Null
  /\ role' = "user"
  /\ UNCHANGED <<session, authLoading>>
  /\ UNCHANGED <<outsideAuthVars, evalVars, detailVars, inboundVars, adminVars,
                 resetVars, unreadVars>>

NextAuth ==
  \/ \E s \in AuthUsers \cup {Null} : onAuthStateChange(s)
  \/ \E s \in AuthUsers \cup {Null} : getSessionResolves(s)
  \/ \E u \in AuthUsers : timeoutFires(u)
  \/ \E u \in AuthUsers, ok \in BOOLEAN : fetchProfile(u, ok)
  \/ \E u \in AuthUsers, ok \in BOOLEAN : fetchRole(u, ok)
  \/ signOutCalled
  \/ signOutResumes

SpecAuth == InitAuth /\ [][NextAuth]_vars

\* ------------------------------------------------------------------------
\* Claims about the auth context (SpecAuth)
\* ------------------------------------------------------------------------
\* C29: whenever there is no session, role is 'user', isStaff is false and
\* profile is null, also when a fetchProfile or fetchRole of the previous
\* session completes afterwards.
C29_NoSessionNoRole ==
  session = Null => (role = "user" /\ ~isStaff /\ profileId = Null)

====
